---- MODULE Spec2Model ----
(***************************************************************************)
(* A model of the boggle-solver core: the trie-pruned depth-first word     *)
(* search of app/solver.py and the multi-pass letter recognizer of         *)
(* app/recognition.py.                                                     *)
(*                                                                         *)
(* Characters are one-character strings, a Python str is the sequence of   *)
(* its characters ("QU" is <<"Q","U">>), a trie node is identified by the  *)
(* prefix that leads to it from the root, and cell indices are 0-based as  *)
(* in the source.                                                          *)
(***************************************************************************)
EXTENDS Integers, Sequences, FiniteSets, TLC

(***************************************************************************)
(* Bounds of the model.                                                    *)
(***************************************************************************)
\* a dictionary holds at most this many words of WordList
MaxDictWords == 2
\* max_results ranges over -1 .. MaxResultsArg
MaxResultsArg == 1
\* the OCR capability returns at most this many text boxes
MaxDetections == 2

(***************************************************************************)
(* Program constants.                                                      *)
(***************************************************************************)
\* settings.WARP_SIZE: side of the warped board in pixels
WarpSize == 400
\* the R/P ratio threshold 0.08, in hundredths
RpThreshold == 8

(***************************************************************************)
(* Strings.                                                                *)
(***************************************************************************)
\* code point of a character: Python compares str by code point
Ord(ch) ==
    CASE ch = "?" -> 63 [] ch = "A" -> 65 [] ch = "B" -> 66
      [] ch = "C" -> 67 [] ch = "D" -> 68 [] ch = "E" -> 69
      [] ch = "F" -> 70 [] ch = "G" -> 71 [] ch = "H" -> 72
      [] ch = "I" -> 73 [] ch = "J" -> 74 [] ch = "K" -> 75
      [] ch = "L" -> 76 [] ch = "M" -> 77 [] ch = "N" -> 78
      [] ch = "O" -> 79 [] ch = "P" -> 80 [] ch = "Q" -> 81
      [] ch = "R" -> 82 [] ch = "S" -> 83 [] ch = "T" -> 84
      [] ch = "U" -> 85 [] ch = "V" -> 86 [] ch = "W" -> 87
      [] ch = "X" -> 88 [] ch = "Y" -> 89 [] ch = "Z" -> 90
      [] ch = "a" -> 97 [] ch = "b" -> 98 [] ch = "q" -> 113
      [] ch = "u" -> 117

\* str.upper() on one character
UpperChar(ch) ==
    CASE ch = "a" -> "A" [] ch = "b" -> "B" [] ch = "q" -> "Q"
      [] ch = "u" -> "U" [] OTHER -> ch

\* str.upper()
Upper(s) == [i \in 1..Len(s) |-> UpperChar(s[i])]

RECURSIVE StrLess(_, _)
Abs(x) == IF x < 0 THEN -x ELSE x

\* a < b on Python str: first differing code point, a proper prefix is less
StrLess(a, b) ==
    IF b = <<>> THEN FALSE
    ELSE IF a = <<>> THEN TRUE
    ELSE IF Ord(Head(a)) # Ord(Head(b)) THEN Ord(Head(a)) < Ord(Head(b))
    ELSE StrLess(Tail(a), Tail(b))

RECURSIVE Join(_)
\* "".join(path)
Join(path) == IF path = <<>> THEN <<>> ELSE Head(path) \o Join(Tail(path))


(***************************************************************************)
(* Trie (solver.py, TrieNode / Trie).                                      *)
(***************************************************************************)
\* Trie(): a root node with no children that is not a word
EmptyTrie == [nodes |-> {<<>>}, is_word |-> {}]

\* Trie.insert(word): create the missing nodes along word, flag the last
TrieInsert(t, word) ==
    [nodes   |-> t.nodes \cup {SubSeq(word, 1, i) : i \in 0..Len(word)},
     is_word |-> t.is_word \cup {word}]

RECURSIVE MakeTrie(_)
\* the trie holding the words of a set (insert is order-independent)
MakeTrie(words) ==
    IF words = {} THEN EmptyTrie
    ELSE LET w == CHOOSE x \in words : TRUE
         IN  TrieInsert(MakeTrie(words \ {w}), w)

\* ch in node.children
HasChild(t, node, ch) == Append(node, ch) \in t.nodes

\* a search that records every prefix it reaches
IsWordAlways(t, node) == TRUE

\* node.is_word
IsWord(t, node) == node \in t.is_word

\* a search that stops extending a prefix once it is a word
HasChildrenUnlessWord(t, node) ==
    /\ node \notin t.is_word
    /\ \E m \in t.nodes : Len(m) = Len(node) + 1 /\ SubSeq(m, 1, Len(node)) = node

\* bool(node.children): the node has at least one child
HasChildren(t, node) ==
    \E m \in t.nodes : Len(m) = Len(node) + 1 /\ SubSeq(m, 1, Len(node)) = node

(***************************************************************************)
(* Inputs of solve.                                                        *)
(***************************************************************************)
AB == <<"A", "B">>
BA == <<"B", "A">>
ABA == <<"A", "B", "A">>
ABC == <<"A", "B", "C">>
QUA == <<"Q", "U", "A">>
QA == <<"Q", "A">>
AUnres == <<"A", "?">>
CAT == <<"C", "A", "T">>
CATS == <<"C", "A", "T", "S">>
BONE == <<"B", "O", "N", "E">>
QUIT == <<"Q", "U", "I", "T">>
QUEST == <<"Q", "U", "E", "S", "T">>
QUITS == <<"Q", "U", "I", "T", "S">>
STAR == <<"S", "T", "A", "R">>
DEN == <<"D", "E", "N">>
SAT == <<"S", "A", "T">>

\* the words the dictionaries of the enumerated boards are drawn from
WordList == {AB, BA, ABA, QUA, QA, AUnres}

Dictionaries == {d \in SUBSET WordList : Cardinality(d) <= MaxDictWords}

\* letter tokens of the exhaustively enumerated boards
CellAlphabet == {<<"A">>, <<"B">>, <<"Q", "U">>, <<"?">>}

\* the grid sizes whose boards are enumerated exhaustively
GridSizes == {1, 2}

EnumeratedBoards == UNION {[1..n -> [1..n -> CellAlphabet]] : n \in GridSizes}

\* board and dictionary of test_no_revisit
NoRevisitBoard == << <<<<"A">>, <<"B">>>>, <<<<"C">>, <<"D">>>> >>
NoRevisitWords == {ABA, AB, ABC}

\* board and dictionary of test_qu_cell
QuitBoard ==
    << <<<<"Q", "U">>, <<"I">>, <<"T">>>>,
       <<<<"E">>, <<"S">>, <<"A">>>>,
       <<<<"N">>, <<"D">>, <<"R">>>> >>
QuitWords ==
    {<<"Q", "U", "I", "T">>, <<"Q", "U", "I", "T", "E">>,
     <<"Q", "U", "E", "S", "T">>, <<"Q", "U", "I", "T", "S">>,
     <<"S", "A", "T">>, <<"S", "E", "T">>, <<"T", "E", "N">>,
     <<"D", "E", "N">>, <<"S", "T", "A", "R">>}

\* board and dictionary of test_basic_solve
BasicBoard ==
    << <<<<"C">>, <<"A">>, <<"T">>, <<"S">>>>,
       <<<<"R">>, <<"E">>, <<"P">>, <<"O">>>>,
       <<<<"B">>, <<"O">>, <<"N">>, <<"E">>>>,
       <<<<"D">>, <<"I">>, <<"G">>, <<"S">>>> >>
BasicWords ==
    {<<"C", "A", "T">>, <<"C", "A", "T", "S">>, <<"C", "A", "R">>,
     <<"C", "A", "R", "E">>, <<"B", "O", "N", "E">>,
     <<"B", "O", "N", "E", "S">>, <<"R", "E", "P">>, <<"P", "E", "N">>,
     <<"P", "O", "N", "E">>, <<"D", "I", "G">>, <<"D", "I", "G", "S">>,
     <<"O", "N", "E">>, <<"O", "N", "E", "S">>, <<"A", "P", "E">>,
     <<"N", "O", "D">>, <<"N", "O", "G">>, <<"S", "O", "N">>,
     <<"R", "E", "P", "O">>, <<"O", "P", "E", "N">>, <<"N", "O", "P", "E">>,
     <<"P", "E", "O", "N">>, <<"S", "I", "N", "G">>, <<"S", "I", "G", "N">>}

\* the (board, dictionary) pairs solve is run on: every enumerated board
\* with every dictionary, and the boards of the tests with their own
SolveInputs ==
    {[board |-> b, words |-> d] : b \in EnumeratedBoards, d \in Dictionaries}
        \cup {[board |-> NoRevisitBoard, words |-> NoRevisitWords],
              [board |-> QuitBoard, words |-> QuitWords],
              [board |-> BasicBoard, words |-> BasicWords]}

MaxResultsArgs == (-1)..MaxResultsArg


(***************************************************************************)
(* Recognition (recognition.py): pure functions.  Confidences and scores   *)
(* are in hundredths, coordinates in pixels of the warped board.           *)
(***************************************************************************)
\* a confusion table that holds only the digits
ConfusionDigitsOnly(ch) ==
    CASE ch = "0" -> "O" [] ch = "1" -> "I" [] ch = "5" -> "S" [] OTHER -> ch

\* CONFUSION_MAP.get(ch, ch)
Confusion(ch) ==
    CASE ch = "0" -> "O" [] ch = "1" -> "I" [] ch = "5" -> "S"
      [] ch = "|" -> "I" [] ch = "!" -> "I" [] ch = "{" -> "C"
      [] ch = "(" -> "C" [] OTHER -> ch

\* str.isalpha() on one character
IsAlpha(ch) ==
    ch \in {"A", "B", "C", "D", "E", "F", "G", "H", "I", "J", "K", "L", "M",
            "N", "O", "P", "Q", "R", "S", "T", "U", "V", "W", "X", "Y", "Z",
            "a", "b", "q", "u"}

\* whitespace as str.strip() sees it
IsSpace(ch) == ch \in {" ", "\t", "\n"}

RECURSIVE LStrip(_)
LStrip(s) == IF s # <<>> /\ IsSpace(Head(s)) THEN LStrip(Tail(s)) ELSE s

RECURSIVE RStrip(_)
RStrip(s) ==
    IF s # <<>> /\ IsSpace(s[Len(s)]) THEN RStrip(SubSeq(s, 1, Len(s) - 1))
    ELSE s

\* str.strip()
Strip(s) == RStrip(LStrip(s))

\* a cleaning that keeps the last alphabetic character instead of the first
clean_ocr_text_last(text) ==
    LET t == Strip(Upper(text))
        mapped == [i \in 1..Len(t) |-> Confusion(t[i])]
        alpha == SelectSeq(mapped, IsAlpha)
    IN  IF t = <<>> THEN <<>>
        ELSE IF alpha = <<>> THEN <<>>
        ELSE IF alpha[Len(alpha)] = "Q" THEN <<"Q", "U">>
        ELSE <<alpha[Len(alpha)]>>

\* _clean_ocr_text: upper, strip, confusion map, keep the alphabetic
\* characters, the first of them, "QU" for a Q
clean_ocr_text(text) ==
    LET t == Strip(Upper(text))
        mapped == [i \in 1..Len(t) |-> Confusion(t[i])]
        alpha == SelectSeq(mapped, IsAlpha)
    IN  IF t = <<>> THEN <<>>
        ELSE IF alpha = <<>> THEN <<>>
        ELSE IF alpha[1] = "Q" THEN <<"Q", "U">>
        ELSE <<alpha[1]>>

\* int(a / b) for b > 0: the quotient truncated toward zero
TruncDiv(a, b) == IF a >= 0 THEN a \div b ELSE -((-a) \div b)

\* TEMPLATE_HOLES.get(letter, 0)
TemplateHoles(letter) ==
    CASE letter \in {<<"A">>, <<"D">>, <<"O">>, <<"P">>, <<"Q", "U">>, <<"R">>}
            -> 1
      [] letter = <<"B">> -> 2
      [] OTHER -> 0

\* _disambiguate_rp: R when more than 0.08 of the dark pixels lie in the
\* lower-right quadrant, else P
disambiguate_rp(img) ==
    LET total_dark == IF img.dark > 1 THEN img.dark ELSE 1
    IN  IF img.lr_dark * 100 > RpThreshold * total_dark THEN <<"R">>
        ELSE <<"P">>

RECURSIVE InsertByScore(_, _)
\* insert into a list kept in descending score order, after equal scores
InsertByScore(sorted, e) ==
    IF sorted = <<>> THEN <<e>>
    ELSE IF Head(sorted).score >= e.score
         THEN <<Head(sorted)>> \o InsertByScore(Tail(sorted), e)
         ELSE <<e>> \o sorted

RECURSIVE SortByScore(_)
\* scores.sort(key=lambda x: -x[1]): stable, descending
SortByScore(scores) ==
    IF scores = <<>> THEN <<>>
    ELSE InsertByScore(SortByScore(SubSeq(scores, 1, Len(scores) - 1)),
                       scores[Len(scores)])

\* the (letter, score) list of a cell image against the templates, in the
\* iteration order of the template dict
ScoresOf(img, tpl) ==
    [i \in 1..Len(tpl) |-> [letter |-> tpl[i], score |-> img.score[tpl[i]]]]

\* _template_match_verified: the best-scoring candidate whose hole count is
\* within 1 of the cell's, corrected by the R/P check; the top candidate
\* when none is compatible
template_match_verified(img, tpl) ==
    LET scores == SortByScore(ScoresOf(img, tpl))
        compatible == {i \in 1..Len(scores) :
                         Abs(img.holes - TemplateHoles(scores[i].letter)) <= 1}
    IN  IF scores = <<>> THEN [letter |-> <<"?">>, conf |-> 0]
        ELSE IF compatible = {}
             THEN [letter |-> scores[1].letter, conf |-> scores[1].score]
        ELSE LET i == CHOOSE x \in compatible : \A y \in compatible : x <= y
                 cand == scores[i]
                 correct == disambiguate_rp(img)
                 others == {j \in 1..Len(scores) : scores[j].letter = correct}
             IN  IF cand.letter \in {<<"R">>, <<"P">>} /\ correct # cand.letter
                 THEN [letter |-> correct,
                       conf |-> IF others = {} THEN cand.score
                                ELSE scores[CHOOSE j \in others :
                                               \A k \in others : j <= k].score]
                 ELSE [letter |-> cand.letter, conf |-> cand.score]

(***************************************************************************)
(* State.                                                                  *)
(***************************************************************************)
VARIABLES
    board,        \* solve: the board argument, rows of cell values
    grid_size,    \* solve: the grid_size argument
    trie,         \* solve: the trie argument
    max_results,  \* solve: the max_results argument
    found,        \* solve: the set of found words
    word_starts,  \* solve: word -> (row, col) of its smallest start
    path,         \* solve: the cell values along the current path
    stack,        \* solve: the active calls of dfs, innermost last
    start,        \* solve: next start cell of the loop over start cells
    pc,           \* solve: "search" while running, "done" once returned
    ret,          \* solve: the returned value
    cells,        \* recognize_cells: the cell images, row-major
    templates,    \* recognize_cells: the calibrated templates, <<>> if None
    easyocr_reader,      \* recognize_cells: "reader", or "none" for None
    warped_gray,         \* recognize_cells: FALSE when the argument is None
    rec_grid_size,       \* recognize_cells: the grid_size argument
    letters,             \* recognize_cells: the letter of each cell
    confidences,         \* recognize_cells: the confidence of each cell
    easyocr_detections,  \* recognize_cells: the (row, col) -> (letter, conf)
                         \* dict of the OCR pass, in insertion order
    ocr_failed,          \* recognize_cells: the OCR call raised
    rec_pc,              \* recognize_cells: the pass to run next
    rec_ret,             \* recognize_cells: the returned (board, conf_2d)
    lines,        \* load_trie: the lines of the word list file
    min_length,   \* load_trie: the min_length argument
    suspended,    \* the locals of the solve calls that share the trie and
                  \* are not the one executing
    raw_text,     \* _clean_ocr_text: the argument
    cleaned,      \* _clean_ocr_text: the value returned for raw_text
    recleaned,    \* _clean_ocr_text: the value returned for cleaned
    clean_pc,     \* _clean_ocr_text: "call", "cleaned", "recleaned"
    pts,          \* _order_corners: the four points of the argument
    rect,         \* _order_corners: the returned array
    order_pc,     \* _order_corners: "call" or "returned"
    image,        \* detect_board_and_warp: what each strategy finds on the
                  \* image, and its width and height
    corners,      \* detect_board_and_warp: the corners, <<>> for None
    method,       \* detect_board_and_warp: debug_info["method"]
    tried,        \* detect_board_and_warp: the strategies evaluated so far
    det_pc,       \* detect_board_and_warp: the statement to run next
    cell_count,   \* infer_grid_size: the number of cell-like contours
    inferred,     \* infer_grid_size: the returned n
    infer_pc,     \* infer_grid_size: "call" or "returned"
    cell_processed,   \* _template_match_verified: the preprocessed cell
    match_templates,  \* _template_match_verified: the templates argument
    match_ret,        \* _template_match_verified: the returned pair
    match_pc,         \* _template_match_verified: "call" or "returned"
    board_shape,      \* split_cells: (h, w) of board_gray
    split_grid_size,  \* split_cells: the grid_size argument
    inset,            \* split_cells: the inset argument, in thousandths
    split_ret,        \* split_cells: the returned list of cells
    split_pc          \* split_cells: "call" or "returned"

solveVars ==
    <<board, grid_size, trie, max_results, found, word_starts, path, stack,
      start, pc, ret>>

recVars ==
    <<cells, templates, easyocr_reader, warped_gray, rec_grid_size, letters,
      confidences, easyocr_detections, ocr_failed, rec_pc, rec_ret>>

loadVars == <<lines, min_length>>

cleanVars == <<raw_text, cleaned, recleaned, clean_pc>>

cornerVars == <<pts, rect, order_pc>>

detectVars == <<image, corners, method, tried, det_pc>>

inferVars == <<cell_count, inferred, infer_pc>>

matchVars == <<cell_processed, match_templates, match_ret, match_pc>>

\* the state of the functions that are called on their own
splitVars == <<board_shape, split_grid_size, inset, split_ret, split_pc>>

auxVars == <<matchVars, splitVars>>

\* the state of the image-side functions other than recognize_cells
libVars == <<cleanVars, cornerVars, detectVars, inferVars, auxVars>>

vars == <<solveVars, recVars, loadVars, suspended, libVars>>

\* load_trie is not running
LoadIdle ==
    /\ lines = <<>>
    /\ min_length = 0

\* _clean_ocr_text is not running
CleanIdle ==
    /\ raw_text = <<>>
    /\ cleaned = <<>>
    /\ recleaned = <<>>
    /\ clean_pc = "idle"

\* _order_corners is not running
CornerIdle ==
    /\ pts = <<>>
    /\ rect = <<>>
    /\ order_pc = "idle"

\* detect_board_and_warp is not running
DetectIdle ==
    /\ image = <<>>
    /\ corners = <<>>
    /\ method = ""
    /\ tried = <<>>
    /\ det_pc = "idle"

\* infer_grid_size is not running
InferIdle ==
    /\ cell_count = 0
    /\ inferred = 0
    /\ infer_pc = "idle"

\* _template_match_verified is not running
MatchIdle ==
    /\ cell_processed = <<>>
    /\ match_templates = <<>>
    /\ match_ret = <<>>
    /\ match_pc = "idle"

\* split_cells is not running
SplitIdle ==
    /\ board_shape = <<>>
    /\ split_grid_size = 0
    /\ inset = 0
    /\ split_ret = <<>>
    /\ split_pc = "idle"

AuxIdle == MatchIdle /\ SplitIdle

LibIdle == CleanIdle /\ CornerIdle /\ DetectIdle /\ InferIdle /\ AuxIdle

(***************************************************************************)
(* Inputs of recognize_cells.  A cell image is described by what the image *)
(* operations measure on it: its correlation score against each template,  *)
(* its hole count and its dark-pixel counts.                               *)
(***************************************************************************)
LetterA == <<"A">>
LetterAB == <<"A", "B">>
LetterP == <<"P">>
LetterQ == <<"Q">>
LetterQU == <<"Q", "U">>
LetterR == <<"R">>
Unknown == <<"?">>

\* _generate_synthetic_templates(): one template per letter, in
\* alphabetical order (the letters of the model's cell images)
SyntheticTemplates == <<LetterA, LetterP, LetterQ, LetterR>>

\* a calibrated template set as load_templates returns it
CalibratedTemplates == <<LetterA, LetterP, LetterQU, LetterR>>

\* str.isalpha(): not empty and every character alphabetic
IsAlphaStr(str) == str # <<>> /\ \A i \in 1..Len(str) : IsAlpha(str[i])

RECURSIVE load_templates(_)
\* load_templates on a directory whose *.png files have these stems, in
\* the order glob yields them: the dict keys in insertion order, <<>> for
\* None (every file is a readable image)
load_templates(stems) ==
    IF stems = <<>> THEN <<>>
    ELSE LET loaded == load_templates(SubSeq(stems, 1, Len(stems) - 1))
             letter == Upper(stems[Len(stems)])
         IN  IF (IsAlphaStr(letter) \/ letter = <<"Q", "U">>)
                /\ \A i \in 1..Len(loaded) : loaded[i] # letter
             THEN Append(loaded, letter)
             ELSE loaded

\* a template directory: A.png, ab.png, P.png, QU.png, R.png and A1.png
TemplateDir ==
    << <<"A">>, <<"a", "b">>, <<"P">>, <<"Q", "U">>, <<"R">>, <<"A", "1">> >>

\* the templates load_templates returns for that directory
LoadedTemplates == load_templates(TemplateDir)

TemplateArgs == {<<>>, CalibratedTemplates, LoadedTemplates}

\* cv2.matchTemplate(.., TM_CCOEFF_NORMED).max() of a 64 x 64 cell against
\* each 64 x 64 template: one correlation coefficient, in -100 .. 100
ScoreTable(a, ab, p, q, qu, r) ==
    [k \in {LetterA, LetterAB, LetterP, LetterQ, LetterQU, LetterR} |->
        CASE k = LetterA -> a [] k = LetterAB -> ab [] k = LetterP -> p
          [] k = LetterQ -> q [] k = LetterQU -> qu [] k = LetterR -> r]

\* an A
ImgA == [score |-> ScoreTable(82, 35, 40, 30, 30, 45), holes |-> 1,
         dark |-> 100, lr_dark |-> 20]
\* an R that correlates best with the P template
ImgR == [score |-> ScoreTable(50, 30, 88, 20, 20, 86), holes |-> 1,
         dark |-> 100, lr_dark |-> 15]
\* a Q
ImgQ == [score |-> ScoreTable(30, 25, 35, 90, 90, 30), holes |-> 1,
         dark |-> 100, lr_dark |-> 30]
\* a smudged cell without a hole: it correlates with the two-letter
\* template and is anti-correlated with every single letter
ImgSmudge == [score |-> ScoreTable(-10, 40, -20, -15, -15, -20), holes |-> 0,
              dark |-> 100, lr_dark |-> 5]

CellImages == {ImgA, ImgR, ImgQ, ImgSmudge}

\* the text boxes the OCR capability may return: centre, text, confidence
BoxCentres == {<<100, 100>>, <<450, 300>>, <<-250, 100>>}
\* the text and confidence read at a centre: at the centre after the last
\* row the R is read more firmly and the q less firmly than elsewhere
BoxReadings(p) ==
    IF p[1] = 450 THEN {<<<<"R">>, 75>>, <<<<"q">>, 65>>, <<<<"-">>, 80>>}
    ELSE {<<<<"R">>, 60>>, <<<<"q">>, 95>>, <<<<"-">>, 80>>}
TextBoxes ==
    UNION {{[cy |-> p[1], cx |-> p[2], text |-> t[1], conf |-> t[2]] :
              t \in BoxReadings(p)} : p \in BoxCentres}

\* the lists reader.readtext may return
ReadResults == UNION {[1..k -> TextBoxes] : k \in 0..MaxDetections}

RecGridSizes == {2}

(***************************************************************************)
(* recognize_cells: helpers.                                               *)
(***************************************************************************)
\* n = grid_size if grid_size else int(len(cells) ** 0.5)
rec_n ==
    IF rec_grid_size # 0 THEN rec_grid_size
    ELSE CHOOSE k \in 0..Len(cells) :
            k * k <= Len(cells) /\ (k + 1) * (k + 1) > Len(cells)

\* the position a Python list of length len gives to index idx: negative
\* indices count from the end; -1 stands for IndexError
PyIndex(idx, len) ==
    IF 0 <= idx /\ idx < len THEN idx
    ELSE IF -len <= idx /\ idx < 0 THEN idx + len
    ELSE -1

Min(a, b) == IF a < b THEN a ELSE b
Max(a, b) == IF a > b THEN a ELSE b

\* the position of key (r, c) in a detection dict, 0 if absent
KeyPos(dets, r, c) ==
    IF \E i \in 1..Len(dets) : dets[i].r = r /\ dets[i].c = c
    THEN CHOOSE i \in 1..Len(dets) : dets[i].r = r /\ dets[i].c = c
    ELSE 0

RECURSIVE easyocr_full_board(_, _)
\* _easyocr_full_board after readtext returned results: map each box to its
\* cell, clean its text, keep the most confident reading per cell
easyocr_full_board(results, n) ==
    IF results = <<>> THEN <<>>
    ELSE LET dets == easyocr_full_board(SubSeq(results, 1, Len(results) - 1), n)
             box == results[Len(results)]
             r == Min(TruncDiv(box.cy * n, WarpSize), n - 1)
             c == Min(TruncDiv(box.cx * n, WarpSize), n - 1)
             text == clean_ocr_text(box.text)
             k == KeyPos(dets, r, c)
             e == [r |-> r, c |-> c, letter |-> text, conf |-> box.conf]
         IN  IF text = <<>> THEN dets
             ELSE IF k = 0 THEN Append(dets, e)
             ELSE IF box.conf > dets[k].conf THEN [dets EXCEPT ![k] = e]
             ELSE dets

\* the list after lst[idx] = v (idx 0-based, Python indexing)
ListSet(lst, idx, v) == [lst EXCEPT ![PyIndex(idx, Len(lst)) + 1] = v]

\* the value of lst[idx] (idx 0-based, Python indexing)
ListGet(lst, idx) == lst[PyIndex(idx, Len(lst)) + 1]

RECURSIVE StoreDetections(_, _, _)
\* step 1: letters[idx] = letter; confidences[idx] = conf per detection
StoreDetections(state, dets, n) ==
    IF dets = <<>> THEN state
    ELSE LET d == Head(dets)
             idx == d.r * n + d.c
         IN  StoreDetections(
                [letters |-> ListSet(state.letters, idx, d.letter),
                 confidences |-> ListSet(state.confidences, idx, d.conf)],
                Tail(dets), n)

\* tpl = templates if templates else _generate_synthetic_templates()
tpl == IF templates # <<>> THEN templates ELSE SyntheticTemplates

RECURSIVE CrossValidate(_, _, _)
\* step 3: re-check every OCR detection against the verified template match
CrossValidate(state, dets, n) ==
    IF dets = <<>> THEN state
    ELSE LET d == Head(dets)
             idx == d.r * n + d.c
             m == template_match_verified(ListGet(cells, idx), tpl)
             next ==
                IF m.letter # d.letter /\ d.conf < 90
                THEN IF m.conf > 85 \/ (m.conf > d.conf /\ d.conf < 70)
                     THEN [letters |-> ListSet(state.letters, idx, m.letter),
                           confidences |->
                              ListSet(state.confidences, idx, m.conf)]
                     ELSE state
                ELSE [letters |-> state.letters,
                      confidences |->
                         ListSet(state.confidences, idx,
                                 Max(ListGet(state.confidences, idx), m.conf))]
         IN  CrossValidate(next, Tail(dets), n)

\* board = [letters[r * n:(r + 1) * n] for r in range(n)]
Reshape(lst, n) == [r \in 1..n |-> SubSeq(lst, (r - 1) * n + 1, r * n)]

(***************************************************************************)
(* recognize_cells: the passes.                                            *)
(***************************************************************************)
RecInit ==
    /\ rec_grid_size \in RecGridSizes
    /\ cells \in [1..(rec_grid_size * rec_grid_size) -> CellImages]
    /\ templates \in TemplateArgs
    /\ easyocr_reader \in {"none", "reader"}
    /\ warped_gray \in BOOLEAN
    /\ letters = [i \in 1..Len(cells) |-> Unknown]
    /\ confidences = [i \in 1..Len(cells) |-> 0]
    /\ easyocr_detections = <<>>
    /\ ocr_failed = FALSE
    /\ rec_pc = "ocr"
    /\ rec_ret = <<>>

\* the recognizer is not running
RecIdle ==
    /\ rec_grid_size = 0
    /\ cells = <<>>
    /\ templates = <<>>
    /\ easyocr_reader = "none"
    /\ warped_gray = FALSE
    /\ letters = <<>>
    /\ confidences = <<>>
    /\ easyocr_detections = <<>>
    /\ ocr_failed = FALSE
    /\ rec_pc = "idle"
    /\ rec_ret = <<>>

\* step 1 without a reader or without the warped board: no OCR pass
RecOcrSkipped ==
    /\ rec_pc = "ocr"
    /\ ~(easyocr_reader # "none" /\ warped_gray)
    /\ rec_pc' = "template"
    /\ UNCHANGED <<cells, templates, easyocr_reader, warped_gray,
                   rec_grid_size, letters, confidences, easyocr_detections,
                   ocr_failed, rec_ret>>
    /\ UNCHANGED <<solveVars, loadVars, suspended, libVars>>

\* step 1: reader.readtext returns its boxes; store the detections
RecOcrReads ==
    /\ rec_pc = "ocr"
    /\ easyocr_reader # "none" /\ warped_gray
    /\ \E results \in ReadResults :
          LET dets == easyocr_full_board(results, rec_n)
              st == StoreDetections([letters |-> letters,
                                     confidences |-> confidences], dets, rec_n)
          IN  /\ easyocr_detections' = dets
              /\ letters' = st.letters
              /\ confidences' = st.confidences
    /\ rec_pc' = "template"
    /\ UNCHANGED <<cells, templates, easyocr_reader, warped_gray,
                   rec_grid_size, ocr_failed, rec_ret>>
    /\ UNCHANGED <<solveVars, loadVars, suspended, libVars>>

\* step 1: reader.readtext raises; nothing catches the error, so it leaves
\* _easyocr_full_board and recognize_cells
RecOcrRaises ==
    /\ rec_pc = "ocr"
    /\ easyocr_reader # "none" /\ warped_gray
    /\ ocr_failed' = TRUE
    /\ rec_pc' = "raised"
    /\ UNCHANGED <<cells, templates, easyocr_reader, warped_gray,
                   rec_grid_size, letters, confidences, easyocr_detections,
                   rec_ret>>
    /\ UNCHANGED <<solveVars, loadVars, suspended, libVars>>

\* a template pass that takes every cell as undetected
UndetectedAlways(i) == TRUE

\* undetected = [i for i in range(len(cells)) if letters[i] == "?"]
Undetected(i) == letters[i] = Unknown

\* step 2: template matching for the cells that are still "?"
RecTemplatePass ==
    /\ rec_pc = "template"
    /\ letters' = [i \in 1..Len(cells) |->
                      IF Undetected(i)
                      THEN template_match_verified(cells[i], tpl).letter
                      ELSE letters[i]]
    /\ confidences' = [i \in 1..Len(cells) |->
                          IF Undetected(i)
                          THEN template_match_verified(cells[i], tpl).conf
                          ELSE confidences[i]]
    /\ rec_pc' = "merge"
    /\ UNCHANGED <<cells, templates, easyocr_reader, warped_gray,
                   rec_grid_size, easyocr_detections, ocr_failed, rec_ret>>
    /\ UNCHANGED <<solveVars, loadVars, suspended, libVars>>

\* step 3 with calibrated templates: cross-check the OCR detections
RecCrossValidate ==
    /\ rec_pc = "merge"
    /\ templates # <<>>
    /\ LET st == CrossValidate([letters |-> letters,
                                confidences |-> confidences],
                               easyocr_detections, rec_n)
       IN  /\ letters' = st.letters
           /\ confidences' = st.confidences
    /\ rec_pc' = "sweep"
    /\ UNCHANGED <<cells, templates, easyocr_reader, warped_gray,
                   rec_grid_size, easyocr_detections, ocr_failed, rec_ret>>
    /\ UNCHANGED <<solveVars, loadVars, suspended, libVars>>

\* step 3 without calibrated templates: nothing to cross-check
RecCrossSkipped ==
    /\ rec_pc = "merge"
    /\ templates = <<>>
    /\ rec_pc' = "sweep"
    /\ UNCHANGED <<cells, templates, easyocr_reader, warped_gray,
                   rec_grid_size, letters, confidences, easyocr_detections,
                   ocr_failed, rec_ret>>
    /\ UNCHANGED <<solveVars, loadVars, suspended, libVars>>

\* a sweep that re-checks only the cells that read P
ReadsP(letter) == letter = LetterP

\* letters[i] in ("R", "P")
ReadsROrP(letter) == letter \in {LetterR, LetterP}

\* the R/P sweep over every cell that reads R or P
RecRpSweep ==
    /\ rec_pc = "sweep"
    /\ letters' = [i \in 1..Len(cells) |->
                      IF ReadsROrP(letters[i])
                      THEN disambiguate_rp(cells[i])
                      ELSE letters[i]]
    /\ rec_pc' = "finish"
    /\ UNCHANGED <<cells, templates, easyocr_reader, warped_gray,
                   rec_grid_size, confidences, easyocr_detections, ocr_failed,
                   rec_ret>>
    /\ UNCHANGED <<solveVars, loadVars, suspended, libVars>>

\* Q -> QU, reshape to rows, return (board, conf_2d)
RecReturn ==
    /\ rec_pc = "finish"
    /\ letters' = [i \in 1..Len(letters) |->
                      IF letters[i] = LetterQ THEN LetterQU ELSE letters[i]]
    /\ rec_ret' = <<Reshape(letters', rec_n), Reshape(confidences, rec_n)>>
    /\ rec_pc' = "returned"
    /\ UNCHANGED <<cells, templates, easyocr_reader, warped_gray,
                   rec_grid_size, confidences, easyocr_detections, ocr_failed>>
    /\ UNCHANGED <<solveVars, loadVars, suspended, libVars>>

(***************************************************************************)
(* solve: the precomputed tables.                                          *)
(***************************************************************************)
total_cells == grid_size * grid_size

\* cell_chars[idx]: the upper-cased value of cell idx, row-major
cell_chars == [idx \in 0..(total_cells - 1) |->
                  Upper(board[(idx \div grid_size) + 1][(idx % grid_size) + 1])]

\* the (dr, dc) pairs in the order of the two nested loops
Offsets ==
    << <<-1, -1>>, <<-1, 0>>, <<-1, 1>>, <<0, -1>>, <<0, 1>>,
       <<1, -1>>, <<1, 0>>, <<1, 1>> >>

\* neighbors[idx]: the cells around idx that lie on the grid, in loop order
neighbors(idx) ==
    LET r == idx \div grid_size
        c == idx % grid_size
        InGrid(o) == /\ 0 <= r + o[1] /\ r + o[1] < grid_size
                     /\ 0 <= c + o[2] /\ c + o[2] < grid_size
        kept == SelectSeq(Offsets, InGrid)
    IN  [i \in 1..Len(kept) |-> (r + kept[i][1]) * grid_size + (c + kept[i][2])]

RECURSIVE Pow2(_)
\* 1 << i
Pow2(i) == IF i = 0 THEN 1 ELSE 2 * Pow2(i - 1)

\* a search that never sees a cell as visited
BitSetNever(visited, idx) == FALSE

\* visited & (1 << idx) is non-zero
BitSet(visited, idx) == (visited \div Pow2(idx)) % 2 = 1

\* a mask that keeps only the bit of the cell entered
WithBitAlone(visited, idx) == Pow2(idx)

\* visited | (1 << idx)
WithBit(visited, idx) ==
    IF BitSet(visited, idx) THEN visited ELSE visited + Pow2(idx)

\* a search that does not skip unresolved cells
UnresolvedNever(chars) == FALSE

\* chars == "?": the cell is unresolved
Unresolved(chars) == chars = <<"?">>

\* a walk that follows only the first character of a cell
WalkFirstChar(t, node, chars) ==
    IF ~HasChild(t, node, Head(chars)) THEN [ok |-> FALSE, node |-> node]
    ELSE [ok |-> TRUE, node |-> Append(node, Head(chars))]

RECURSIVE Walk(_, _, _)
\* the loop over the characters of a cell: the node reached from node, or
\* the failure marker when an edge is missing
Walk(t, node, chars) ==
    IF chars = <<>> THEN [ok |-> TRUE, node |-> node]
    ELSE IF ~HasChild(t, node, Head(chars)) THEN [ok |-> FALSE, node |-> node]
    ELSE Walk(t, Append(node, Head(chars)), Tail(chars))

\* a lookup that creates the child it does not find, as a defaultdict does
TrieAfterWalkCreating(t, node, chars) ==
    [t EXCEPT !.nodes =
        @ \cup {node \o SubSeq(chars, 1, i) : i \in 1..Len(chars)}]

\* the trie after the loop over the characters of a cell: `ch not in
\* current.children` and `current.children[ch]` read the mapping
TrieAfterWalk(t, node, chars) == t

\* a sort key that puts shorter words first
KeyLessShortFirst(a, b) == Len(a) < Len(b) \/ (Len(a) = Len(b) /\ StrLess(a, b))

\* (-len(a), a) < (-len(b), b): the sort key of the result
KeyLess(a, b) == Len(a) > Len(b) \/ (Len(a) = Len(b) /\ StrLess(a, b))

RECURSIVE Sorted(_)
\* sorted(found, key=lambda w: (-len(w), w))
Sorted(S) ==
    IF S = {} THEN <<>>
    ELSE LET m == CHOOSE x \in S : \A y \in S \ {x} : KeyLess(x, y)
         IN  <<m>> \o Sorted(S \ {m})

\* result[:max_results] without the test for max_results > 0
TruncateUnguarded(result, k) ==
    LET n == IF k >= 0 THEN k ELSE Len(result) + k
    IN  SubSeq(result, 1, IF n < 0 THEN 0 ELSE IF n < Len(result) THEN n
                                                ELSE Len(result))

\* result[:max_results] if max_results > 0 else result
Truncate(result, k) ==
    IF k > 0 THEN SubSeq(result, 1, IF k < Len(result) THEN k ELSE Len(result))
    ELSE result

\* a comparison that keeps the largest start
PosGreater(p, q) == p[1] > q[1] \/ (p[1] = q[1] /\ p[2] > q[2])

\* (sr, sc) < word_starts[word] on tuples
PosLess(p, q) == p[1] < q[1] \/ (p[1] = q[1] /\ p[2] < q[2])

\* a call of dfs: its arguments, the node reached in this cell, and the
\* position of the loop over the neighbours
Frame(idx, node, visited, start_idx) ==
    [idx |-> idx, node |-> node, visited |-> visited, start_idx |-> start_idx,
     current |-> node, phase |-> "enter", ni |-> 1]

Top == stack[Len(stack)]
Pop == SubSeq(stack, 1, Len(stack) - 1)

(***************************************************************************)
(* solve: the steps.                                                       *)
(***************************************************************************)
SolveInit ==
    /\ \E inp \in SolveInputs :
          /\ board = inp.board
          /\ trie = MakeTrie(inp.words)
    /\ grid_size = Len(board)
    /\ max_results \in MaxResultsArgs
    /\ found = {}
    /\ word_starts = <<>>
    /\ path = <<>>
    /\ stack = <<>>
    /\ start = 0
    /\ pc = "search"
    /\ ret = <<>>
    /\ RecIdle
    /\ LoadIdle
    /\ suspended = <<>>
    /\ LibIdle

\* for start in range(total_cells): dfs(start, trie.root, [], 1 << start, start)
SolveNextStart ==
    /\ pc = "search"
    /\ stack = <<>>
    /\ start < total_cells
    /\ stack' = <<Frame(start, <<>>, Pow2(start), start)>>
    /\ start' = start + 1
    /\ UNCHANGED <<board, grid_size, trie, max_results, found, word_starts,
                   path, pc, ret>>
    /\ UNCHANGED <<recVars, loadVars, suspended, libVars>>

\* dfs: the cell is unresolved, return at once
DfsUnresolved ==
    /\ stack # <<>>
    /\ Top.phase = "enter"
    /\ Unresolved(cell_chars[Top.idx])
    /\ stack' = Pop
    /\ UNCHANGED <<board, grid_size, trie, max_results, found, word_starts,
                   path, start, pc, ret>>
    /\ UNCHANGED <<recVars, loadVars, suspended, libVars>>

\* dfs: an edge for a character of the cell is missing, return
DfsMissingEdge ==
    /\ stack # <<>>
    /\ Top.phase = "enter"
    /\ ~Unresolved(cell_chars[Top.idx])
    /\ ~Walk(trie, Top.node, cell_chars[Top.idx]).ok
    /\ trie' = TrieAfterWalk(trie, Top.node, cell_chars[Top.idx])
    /\ stack' = Pop
    /\ UNCHANGED <<board, grid_size, max_results, found, word_starts,
                   path, start, pc, ret>>
    /\ UNCHANGED <<recVars, loadVars, suspended, libVars>>

\* dfs: the cell extends the prefix; append it to the path and record the
\* word and its start when the node reached is a word
DfsVisit ==
    /\ stack # <<>>
    /\ Top.phase = "enter"
    /\ ~Unresolved(cell_chars[Top.idx])
    /\ LET w == Walk(trie, Top.node, cell_chars[Top.idx])
           newpath == Append(path, cell_chars[Top.idx])
           word == Join(newpath)
           pos == <<Top.start_idx \div grid_size, Top.start_idx % grid_size>>
       IN  /\ w.ok
           /\ path' = newpath
           /\ IF IsWord(trie, w.node)
              THEN /\ found' = found \cup {word}
                   /\ word_starts' =
                        IF word \notin DOMAIN word_starts
                           \/ PosLess(pos, word_starts[word])
                        THEN [x \in DOMAIN word_starts \cup {word} |->
                                 IF x = word THEN pos ELSE word_starts[x]]
                        ELSE word_starts
              ELSE UNCHANGED <<found, word_starts>>
           /\ stack' = [stack EXCEPT ![Len(stack)] =
                           [@ EXCEPT !.current = w.node, !.phase = "expand"]]
    /\ trie' = TrieAfterWalk(trie, Top.node, cell_chars[Top.idx])
    /\ UNCHANGED <<board, grid_size, max_results, start, pc, ret>>
    /\ UNCHANGED <<recVars, loadVars, suspended, libVars>>

\* dfs: the next neighbour is not on the path, call dfs on it
DfsDescend ==
    /\ stack # <<>>
    /\ Top.phase = "expand"
    /\ HasChildren(trie, Top.current)
    /\ Top.ni <= Len(neighbors(Top.idx))
    /\ LET nidx == neighbors(Top.idx)[Top.ni]
       IN  /\ ~BitSet(Top.visited, nidx)
           /\ stack' = Append([stack EXCEPT ![Len(stack)].ni = @ + 1],
                              Frame(nidx, Top.current,
                                    WithBit(Top.visited, nidx), Top.start_idx))
    /\ UNCHANGED <<board, grid_size, trie, max_results, found, word_starts,
                   path, start, pc, ret>>
    /\ UNCHANGED <<recVars, loadVars, suspended, libVars>>

\* dfs: the next neighbour is already on the path, skip it
DfsSkipVisited ==
    /\ stack # <<>>
    /\ Top.phase = "expand"
    /\ HasChildren(trie, Top.current)
    /\ Top.ni <= Len(neighbors(Top.idx))
    /\ BitSet(Top.visited, neighbors(Top.idx)[Top.ni])
    /\ stack' = [stack EXCEPT ![Len(stack)].ni = @ + 1]
    /\ UNCHANGED <<board, grid_size, trie, max_results, found, word_starts,
                   path, start, pc, ret>>
    /\ UNCHANGED <<recVars, loadVars, suspended, libVars>>

\* dfs: no further prefix or all neighbours tried; path.pop() and return
DfsReturn ==
    /\ stack # <<>>
    /\ Top.phase = "expand"
    /\ \/ ~HasChildren(trie, Top.current)
       \/ Top.ni > Len(neighbors(Top.idx))
    /\ path' = SubSeq(path, 1, Len(path) - 1)
    /\ stack' = Pop
    /\ UNCHANGED <<board, grid_size, trie, max_results, found, word_starts,
                   start, pc, ret>>
    /\ UNCHANGED <<recVars, loadVars, suspended, libVars>>

\* a positions map cut down to the words of the returned list
PositionsOfResult(starts, result) ==
    [w \in {result[i] : i \in 1..Len(result)} |-> starts[w]]

\* the positions map returned: word_starts as the search left it
Positions(starts, result) == starts

\* sort, truncate and return (result, word_starts)
SolveReturn ==
    /\ pc = "search"
    /\ stack = <<>>
    /\ start = total_cells
    /\ LET result == Truncate(Sorted(found), max_results)
       IN  ret' = <<result, Positions(word_starts, result)>>
    /\ pc' = "done"
    /\ UNCHANGED <<board, grid_size, trie, max_results, found, word_starts,
                   path, stack, start>>
    /\ UNCHANGED <<recVars, loadVars, suspended, libVars>>

Init == SolveInit

Next ==
    \/ SolveNextStart
    \/ DfsUnresolved
    \/ DfsMissingEdge
    \/ DfsVisit
    \/ DfsDescend
    \/ DfsSkipVisited
    \/ DfsReturn
    \/ SolveReturn

Spec == Init /\ [][Next]_vars

\* solve is not running
SolveIdle ==
    /\ board = <<>>
    /\ grid_size = 0
    /\ trie = EmptyTrie
    /\ max_results = 0
    /\ found = {}
    /\ word_starts = <<>>
    /\ path = <<>>
    /\ stack = <<>>
    /\ start = 0
    /\ pc = "idle"
    /\ ret = <<>>

InitRecognize ==
    RecInit /\ SolveIdle /\ LoadIdle /\ suspended = <<>> /\ LibIdle

NextRecognize ==
    \/ RecOcrSkipped
    \/ RecOcrReads
    \/ RecOcrRaises
    \/ RecTemplatePass
    \/ RecCrossValidate
    \/ RecCrossSkipped
    \/ RecRpSweep
    \/ RecReturn

SpecRecognize == InitRecognize /\ [][NextRecognize]_vars

(***************************************************************************)
(* Concurrent calls of solve on one trie.  The locals of solve belong to   *)
(* the call; the trie object is the only thing the calls share.  One call  *)
(* executes at a time and the others are suspended between two steps.      *)
(***************************************************************************)
\* the boards of the two calls
BoardAB == << <<<<"A">>, <<"B">>>>, <<<<"Q", "U">>, <<"A">>>> >>
BoardBA == << <<<<"B">>, <<"A">>>>, <<<<"A">>, <<"?">>>> >>

\* the locals and arguments of a call of solve that has not run a step
FreshCall(b, k) ==
    [board |-> b, grid_size |-> Len(b), max_results |-> k, found |-> {},
     word_starts |-> <<>>, path |-> <<>>, stack |-> <<>>, start |-> 0,
     pc |-> "search", ret |-> <<>>]

\* the locals and arguments of the executing call
Locals ==
    [board |-> board, grid_size |-> grid_size, max_results |-> max_results,
     found |-> found, word_starts |-> word_starts, path |-> path,
     stack |-> stack, start |-> start, pc |-> pc, ret |-> ret]

\* two calls of solve with the same trie, the second not yet started
ConcurrentInit ==
    /\ \E d \in Dictionaries : trie = MakeTrie(d)
    /\ board = BoardAB
    /\ grid_size = Len(board)
    /\ max_results \in MaxResultsArgs
    /\ found = {}
    /\ word_starts = <<>>
    /\ path = <<>>
    /\ stack = <<>>
    /\ start = 0
    /\ pc = "search"
    /\ ret = <<>>
    /\ suspended = <<FreshCall(BoardBA, 0)>>
    /\ RecIdle
    /\ LoadIdle
    /\ LibIdle

\* the executing call is suspended and the longest-suspended call goes on
Switch ==
    /\ suspended # <<>>
    /\ LET call == Head(suspended)
       IN  /\ board' = call.board
           /\ grid_size' = call.grid_size
           /\ max_results' = call.max_results
           /\ found' = call.found
           /\ word_starts' = call.word_starts
           /\ path' = call.path
           /\ stack' = call.stack
           /\ start' = call.start
           /\ pc' = call.pc
           /\ ret' = call.ret
    /\ suspended' = Append(Tail(suspended), Locals)
    /\ UNCHANGED trie
    /\ UNCHANGED <<recVars, loadVars, libVars>>

NextConcurrent ==
    \/ Next
    \/ Switch

SpecConcurrent == ConcurrentInit /\ [][NextConcurrent]_vars

(***************************************************************************)
(* load_trie (solver.py), followed by a call of solve with the trie it     *)
(* built.  A line of the word list is a sequence of characters.            *)
(***************************************************************************)
\* a word list has at most this many lines
MaxFileLines == 2

\* the lines a word list is made of: "ab\n", " Aba \n", "a\n", "a1\n",
\* "\n", and "qua" as a last line without a newline
FileLines ==
    {<<"a", "b", "\n">>, <<" ", "A", "b", "a", " ", "\n">>, <<"a", "\n">>,
     <<"a", "1", "\n">>, <<"\n">>, <<"q", "u", "a">>}

WordFiles == UNION {[1..k -> FileLines] : k \in 0..MaxFileLines}

\* the values of min_length; settings.MIN_WORD_LENGTH is 3
MinLengths == 0..3

\* a length test that leaves out the words of exactly min_length letters
LongEnoughStrict(word, m) == Len(word) > m

\* len(word) >= min_length
LongEnough(word, m) == Len(word) >= m

RECURSIVE load_trie(_, _)
\* load_trie: insert line.strip().upper() for every line of the file whose
\* word is long enough and alphabetic
load_trie(file, m) ==
    IF file = <<>> THEN EmptyTrie
    ELSE LET t == load_trie(SubSeq(file, 1, Len(file) - 1), m)
             word == Upper(Strip(file[Len(file)]))
         IN  IF LongEnough(word, m) /\ IsAlphaStr(word)
             THEN TrieInsert(t, word)
             ELSE t

\* a word list, a minimum length and the board that is solved afterwards
LoadInit ==
    /\ lines \in WordFiles
    /\ min_length \in MinLengths
    /\ board \in {BoardAB, BoardBA}
    /\ grid_size = Len(board)
    /\ trie = EmptyTrie
    /\ max_results = 0
    /\ found = {}
    /\ word_starts = <<>>
    /\ path = <<>>
    /\ stack = <<>>
    /\ start = 0
    /\ pc = "load"
    /\ ret = <<>>
    /\ suspended = <<>>
    /\ RecIdle
    /\ LibIdle

\* trie = load_trie(path, min_length); solve(board, grid_size, trie, 0) next
LoadTrie ==
    /\ pc = "load"
    /\ trie' = load_trie(lines, min_length)
    /\ pc' = "search"
    /\ UNCHANGED <<board, grid_size, max_results, found, word_starts, path,
                   stack, start, ret>>
    /\ UNCHANGED <<recVars, loadVars, suspended, libVars>>

NextLoad ==
    \/ LoadTrie
    \/ Next

SpecLoad == LoadInit /\ [][NextLoad]_vars


(***************************************************************************)
(* _clean_ocr_text applied to a text, and to its own result.               *)
(***************************************************************************)
\* the texts read from a box are at most this long
MaxTextLen == 3

\* the characters of the texts
TextChars ==
    {"A", "a", "Q", "q", "U", "0", "1", "5", "|", "!", "(", "{", " ", "-",
     "2", "3"}

Texts == UNION {[1..k -> TextChars] : k \in 0..MaxTextLen}

CleanInit ==
    /\ raw_text \in Texts
    /\ cleaned = <<>>
    /\ recleaned = <<>>
    /\ clean_pc = "call"

\* cleaned = _clean_ocr_text(raw_text)
CleanText ==
    /\ clean_pc = "call"
    /\ cleaned' = clean_ocr_text(raw_text)
    /\ clean_pc' = "cleaned"
    /\ UNCHANGED <<raw_text, recleaned>>
    /\ UNCHANGED <<solveVars, recVars, loadVars, suspended, auxVars,
                   cornerVars, detectVars, inferVars>>

\* recleaned = _clean_ocr_text(cleaned)
CleanAgain ==
    /\ clean_pc = "cleaned"
    /\ recleaned' = clean_ocr_text(cleaned)
    /\ clean_pc' = "recleaned"
    /\ UNCHANGED <<raw_text, cleaned>>
    /\ UNCHANGED <<solveVars, recVars, loadVars, suspended, auxVars,
                   cornerVars, detectVars, inferVars>>

InitClean ==
    /\ CleanInit
    /\ CornerIdle /\ DetectIdle /\ InferIdle
    /\ SolveIdle /\ RecIdle /\ LoadIdle /\ suspended = <<>> /\ AuxIdle

NextClean ==
    \/ CleanText
    \/ CleanAgain

SpecClean == InitClean /\ [][NextClean]_vars

(***************************************************************************)
(* _order_corners (board_detect.py).  A point is <<x, y>>.                 *)
(***************************************************************************)
\* the coordinates of the points range over 0 .. MaxCoord
MaxCoord == 2

\* np.argmin: the first position that holds the least value
ArgMin(a) ==
    CHOOSE i \in 1..Len(a) :
        /\ \A j \in 1..Len(a) : a[i] <= a[j]
        /\ \A j \in 1..(i - 1) : a[j] > a[i]

\* np.argmax: the first position that holds the greatest value
ArgMax(a) ==
    CHOOSE i \in 1..Len(a) :
        /\ \A j \in 1..Len(a) : a[i] >= a[j]
        /\ \A j \in 1..(i - 1) : a[j] < a[i]

\* a row sum that takes the first column only
RowSumFirst(p) == p[1]

\* pts.sum(axis=1) for one row: x + y
RowSum(p) == p[1] + p[2]

\* a row difference taken the other way round: x - y
RowDiffReversed(p) == p[1] - p[2]

\* np.diff(pts, axis=1) for one row: y - x
RowDiff(p) == p[2] - p[1]

\* _order_corners: rect[0], rect[1], rect[2], rect[3]
order_corners(points) ==
    LET s == [i \in 1..Len(points) |-> RowSum(points[i])]
        d == [i \in 1..Len(points) |-> RowDiff(points[i])]
    IN  <<points[ArgMin(s)], points[ArgMin(d)], points[ArgMax(s)],
          points[ArgMax(d)]>>

Points == (0..MaxCoord) \X (0..MaxCoord)

\* the points p, q, r lie on one line
Collinear(p, q, r) ==
    (q[1] - p[1]) * (r[2] - p[2]) = (q[2] - p[2]) * (r[1] - p[1])

\* the corners of a quadrilateral, in any order: four different points, no
\* three of them on one line
CornerInit ==
    /\ pts \in [1..4 -> Points]
    /\ \A i, j \in 1..4 : i # j => pts[i] # pts[j]
    /\ \A i, j, k \in 1..4 :
          (i < j /\ j < k) => ~Collinear(pts[i], pts[j], pts[k])
    /\ rect = <<>>
    /\ order_pc = "call"

\* rect = _order_corners(pts)
OrderCorners ==
    /\ order_pc = "call"
    /\ rect' = order_corners(pts)
    /\ order_pc' = "returned"
    /\ UNCHANGED pts
    /\ UNCHANGED <<solveVars, recVars, loadVars, suspended, auxVars,
                   cleanVars, detectVars, inferVars>>

InitCorners ==
    /\ CornerInit
    /\ CleanIdle /\ DetectIdle /\ InferIdle
    /\ SolveIdle /\ RecIdle /\ LoadIdle /\ suspended = <<>> /\ AuxIdle

NextCorners == OrderCorners

SpecCorners == InitCorners /\ [][NextCorners]_vars

(***************************************************************************)
(* detect_board_and_warp (board_detect.py).  An image is described by what *)
(* each localization strategy finds on it (<<>> for None) and by its size. *)
(***************************************************************************)
\* quadrilaterals a strategy may find: top-left, top-right, bottom-right,
\* bottom-left
QuadLarge == << <<20, 30>>, <<580, 30>>, <<580, 590>>, <<20, 590>> >>
QuadSmall == << <<100, 200>>, <<500, 200>>, <<500, 600>>, <<100, 600>> >>

StrategyResults == {<<>>, QuadLarge, QuadSmall}

\* line segments <<x1, y1, x2, y2>> HoughLinesP may report: two pieces of
\* the top edge, the bottom edge, the left and the right edge, a diagonal
Segments ==
    {<<20, 30, 300, 30>>, <<280, 30, 580, 30>>, <<20, 590, 580, 590>>,
     <<20, 30, 20, 590>>, <<580, 30, 580, 590>>, <<100, 100, 400, 400>>}

\* np.abs(np.arctan2(y2 - y1, x2 - x1)) < 0.3, with tan(0.3) = 0.30934
RoughlyHorizontal(seg) ==
    /\ seg[3] - seg[1] > 0
    /\ Abs(seg[4] - seg[2]) * 100000 < 30934 * (seg[3] - seg[1])

\* the angle is not below 0.3 and is above 1.27, with tan(1.27) = 3.2236
RoughlyVertical(seg) ==
    /\ ~RoughlyHorizontal(seg)
    /\ \/ seg[3] - seg[1] <= 0
       \/ Abs(seg[4] - seg[2]) * 10000 > 32236 * (seg[3] - seg[1])

\* the least and the greatest of a set of numbers
Least(S) == CHOOSE x \in S : \A y \in S : x <= y
Greatest(S) == CHOOSE x \in S : \A y \in S : x >= y

\* _find_board_hough on an image whose Hough segments are segs: None without
\* two horizontal and two vertical segments, else the rectangle between the
\* first and last midpoint heights and the first and last midpoint abscissas
\* (the segments of the model have whole midpoints)
find_board_hough(segs) ==
    LET hs == {seg \in segs : RoughlyHorizontal(seg)}
        vs == {seg \in segs : RoughlyVertical(seg)}
        h_lines == {(seg[2] + seg[4]) \div 2 : seg \in hs}
        v_lines == {(seg[1] + seg[3]) \div 2 : seg \in vs}
    IN  IF Cardinality(hs) < 2 \/ Cardinality(vs) < 2 THEN <<>>
        ELSE << <<Least(v_lines), Least(h_lines)>>,
                <<Greatest(v_lines), Least(h_lines)>>,
                <<Greatest(v_lines), Greatest(h_lines)>>,
                <<Least(v_lines), Greatest(h_lines)>> >>

\* what the line-based strategy may find
HoughResults == {find_board_hough(segs) : segs \in SUBSET Segments}

\* (width, height) of the images; 600 x 800 is test_fallback_on_blank_image
ImageSizes == {<<600, 800>>, <<400, 400>>}

Images ==
    [contour : StrategyResults, cells : StrategyResults,
     hough : HoughResults, w : {sz[1] : sz \in ImageSizes},
     h : {sz[2] : sz \in ImageSizes}]

\* the corners of the centre crop: margins of int(w * 0.1) and int(h * 0.2)
center_crop(w, h) ==
    LET margin_x == w \div 10
        margin_y == h \div 5
    IN  << <<margin_x, margin_y>>, <<w - margin_x, margin_y>>,
           <<w - margin_x, h - margin_y>>, <<margin_x, h - margin_y>> >>

\* a test that lets every later strategy run
IsNoneAlways(c) == TRUE

\* corners is None
IsNone(c) == c = <<>>

DetectInit ==
    /\ image \in Images
    /\ <<image.w, image.h>> \in ImageSizes
    /\ corners = <<>>
    /\ method = ""
    /\ tried = <<>>
    /\ det_pc = "contour"

\* corners = _find_board_contour(image_bgr); method = "contour"
DetContour ==
    /\ det_pc = "contour"
    /\ corners' = image.contour
    /\ method' = "contour"
    /\ tried' = Append(tried, "contour")
    /\ det_pc' = "cells"
    /\ UNCHANGED image
    /\ UNCHANGED <<solveVars, recVars, loadVars, suspended, auxVars,
                   cleanVars, cornerVars, inferVars>>

\* if corners is None: corners = _find_board_from_cells(image_bgr)
DetCells ==
    /\ det_pc = "cells"
    /\ IF IsNone(corners)
       THEN /\ corners' = image.cells
            /\ method' = "cell_grouping"
            /\ tried' = Append(tried, "cell_grouping")
       ELSE UNCHANGED <<corners, method, tried>>
    /\ det_pc' = "hough"
    /\ UNCHANGED image
    /\ UNCHANGED <<solveVars, recVars, loadVars, suspended, auxVars,
                   cleanVars, cornerVars, inferVars>>

\* if corners is None: corners = _find_board_hough(image_bgr)
DetHough ==
    /\ det_pc = "hough"
    /\ IF IsNone(corners)
       THEN /\ corners' = image.hough
            /\ method' = "hough"
            /\ tried' = Append(tried, "hough")
       ELSE UNCHANGED <<corners, method, tried>>
    /\ det_pc' = "crop"
    /\ UNCHANGED image
    /\ UNCHANGED <<solveVars, recVars, loadVars, suspended, auxVars,
                   cleanVars, cornerVars, inferVars>>

\* if corners is None: the centre crop
DetCenterCrop ==
    /\ det_pc = "crop"
    /\ IF IsNone(corners)
       THEN /\ corners' = center_crop(image.w, image.h)
            /\ method' = "center_crop_fallback"
            /\ tried' = Append(tried, "center_crop_fallback")
       ELSE UNCHANGED <<corners, method, tried>>
    /\ det_pc' = "warp"
    /\ UNCHANGED image
    /\ UNCHANGED <<solveVars, recVars, loadVars, suspended, auxVars,
                   cleanVars, cornerVars, inferVars>>

\* warp the quadrilateral and return (warped_gray, debug_info)
DetReturn ==
    /\ det_pc = "warp"
    /\ det_pc' = "returned"
    /\ UNCHANGED <<image, corners, method, tried>>
    /\ UNCHANGED <<solveVars, recVars, loadVars, suspended, auxVars,
                   cleanVars, cornerVars, inferVars>>

InitDetect ==
    /\ DetectInit
    /\ CleanIdle /\ CornerIdle /\ InferIdle
    /\ SolveIdle /\ RecIdle /\ LoadIdle /\ suspended = <<>> /\ AuxIdle

NextDetect ==
    \/ DetContour
    \/ DetCells
    \/ DetHough
    \/ DetCenterCrop
    \/ DetReturn

SpecDetect == InitDetect /\ [][NextDetect]_vars

(***************************************************************************)
(* infer_grid_size (board_detect.py): the mapping of the number of         *)
(* cell-like contours to the grid size.                                    *)
(***************************************************************************)
\* the contour loop counts at most this many cell-like contours
MaxCellCount == 60

\* candidates = {16: 4, 25: 5, 36: 6}: the keys in insertion order
CandidateKeys == <<16, 25, 36>>

\* candidates[key]
CandidateSize(key) == CASE key = 16 -> 4 [] key = 25 -> 5 [] key = 36 -> 6

\* a distance without the absolute value
SignedDistance(key, count) == key - count

\* the sort key of min: abs(n - cell_count)
Distance(key, count) == Abs(key - count)

\* min(keys, key=...): the first key that has the least distance
MinByDistance(keys, count) ==
    keys[CHOOSE i \in 1..Len(keys) :
            /\ \A j \in 1..Len(keys) :
                  Distance(keys[i], count) <= Distance(keys[j], count)
            /\ \A j \in 1..(i - 1) :
                  Distance(keys[j], count) > Distance(keys[i], count)]

\* the n infer_grid_size returns for a cell count
grid_size_of(count) == CandidateSize(MinByDistance(CandidateKeys, count))

InferInit ==
    /\ cell_count \in 0..MaxCellCount
    /\ inferred = 0
    /\ infer_pc = "call"

\* best_n = min(...); n = candidates[best_n]; return n
InferGridSize ==
    /\ infer_pc = "call"
    /\ inferred' = grid_size_of(cell_count)
    /\ infer_pc' = "returned"
    /\ UNCHANGED cell_count
    /\ UNCHANGED <<solveVars, recVars, loadVars, suspended, auxVars,
                   cleanVars, cornerVars, detectVars>>

InitInfer ==
    /\ InferInit
    /\ CleanIdle /\ CornerIdle /\ DetectIdle
    /\ SolveIdle /\ RecIdle /\ LoadIdle /\ suspended = <<>> /\ AuxIdle

NextInfer == InferGridSize

SpecInfer == InitInfer /\ [][NextInfer]_vars

(***************************************************************************)
(* _template_match_verified (recognition.py) called on one preprocessed    *)
(* cell.                                                                   *)
(***************************************************************************)
\* the most enclosed regions _count_holes finds in a cell
MaxHoles == 3

\* the correlation scores of a cell against a template, in hundredths
MatchScores == {-10, 50, 80}

\* the preprocessed cells: scores, hole count, dark-pixel counts (the bare
\* Q of the synthetic set and QU of a calibrated set score alike)
ProcessedCells ==
    {[score |-> ScoreTable(a, ab, p, q, q, r), holes |-> h, dark |-> 100,
      lr_dark |-> lr] :
        a \in MatchScores, ab \in MatchScores, p \in MatchScores,
        q \in MatchScores, r \in MatchScores, h \in 0..MaxHoles,
        lr \in {5, 15}}

\* the template dicts: empty, synthetic, calibrated, loaded from the
\* directory, and a calibrated set that has an R but no P
TemplateSets ==
    {<<>>, SyntheticTemplates, CalibratedTemplates, LoadedTemplates,
     <<LetterA, LetterR>>}

MatchInit ==
    /\ cell_processed \in ProcessedCells
    /\ match_templates \in TemplateSets
    /\ match_ret = <<>>
    /\ match_pc = "call"

\* return _template_match_verified(cell_processed, templates)
MatchVerified ==
    /\ match_pc = "call"
    /\ match_ret' = template_match_verified(cell_processed, match_templates)
    /\ match_pc' = "returned"
    /\ UNCHANGED <<cell_processed, match_templates>>
    /\ UNCHANGED <<solveVars, recVars, loadVars, suspended, cleanVars,
                   cornerVars, detectVars, inferVars, splitVars>>

InitMatch ==
    /\ MatchInit
    /\ CleanIdle /\ CornerIdle /\ DetectIdle /\ InferIdle /\ SplitIdle
    /\ SolveIdle /\ RecIdle /\ LoadIdle /\ suspended = <<>>

NextMatch == MatchVerified

SpecMatch == InitMatch /\ [][NextMatch]_vars

(***************************************************************************)
(* split_cells (cell_extract.py).  A cell is the slice board_gray[y1:y2,   *)
(* x1:x2], given by its four bounds.  The inset is in thousandths.  For    *)
(* the grid sizes 4, 5 and 6 and the sides and insets of the model the     *)
(* float products int(r * cell_h) and int(cell_h * inset) equal the exact  *)
(* floors.                                                                 *)
(***************************************************************************)
\* the largest of the small boards
MaxBoardSide == 12

\* the side of the square warped board: small boards, and WARP_SIZE
BoardSides == (6..MaxBoardSide) \cup {WarpSize}

\* the grid sizes infer_grid_size returns
SplitGridSizes == {4, 5, 6}

\* inset fractions 0, 0.15 (CELL_INSET), 0.49, 0.499, 0.5 and 0.6
Insets == {0, 150, 490, 499, 500, 600}

\* an integer accumulation of the cell size: k * int(side / n)
BoundaryAccumulated(k, side, n) == k * (side \div n)

\* int(k * cell_h) with cell_h = side / n
Boundary(k, side, n) == (k * side) \div n

\* int(cell_h * inset)
InsetPixels(side, n, ins) == (side * ins) \div (n * 1000)

\* the cells in row-major order
split_cells(shape, n, ins) ==
    LET inset_y == InsetPixels(shape[1], n, ins)
        inset_x == InsetPixels(shape[2], n, ins)
    IN  [k \in 1..(n * n) |->
           LET r == (k - 1) \div n
               c == (k - 1) % n
           IN  [y1 |-> Boundary(r, shape[1], n) + inset_y,
                y2 |-> Boundary(r + 1, shape[1], n) - inset_y,
                x1 |-> Boundary(c, shape[2], n) + inset_x,
                x2 |-> Boundary(c + 1, shape[2], n) - inset_x]]

\* the number of rows and of columns of a slice with bounds inside the board
CellHeight(cell) == Max(0, cell.y2 - cell.y1)
CellWidth(cell) == Max(0, cell.x2 - cell.x1)

SplitInit ==
    /\ \E side \in BoardSides : board_shape = <<side, side>>
    /\ split_grid_size \in SplitGridSizes
    /\ inset \in Insets
    /\ split_ret = <<>>
    /\ split_pc = "call"

\* return split_cells(board_gray, grid_size, inset)
SplitCells ==
    /\ split_pc = "call"
    /\ split_ret' = split_cells(board_shape, split_grid_size, inset)
    /\ split_pc' = "returned"
    /\ UNCHANGED <<board_shape, split_grid_size, inset>>
    /\ UNCHANGED <<solveVars, recVars, loadVars, suspended, cleanVars,
                   cornerVars, detectVars, inferVars, matchVars>>

InitSplit ==
    /\ SplitInit
    /\ CleanIdle /\ CornerIdle /\ DetectIdle /\ InferIdle /\ MatchIdle
    /\ SolveIdle /\ RecIdle /\ LoadIdle /\ suspended = <<>>

NextSplit == SplitCells

SpecSplit == InitSplit /\ [][NextSplit]_vars

(***************************************************************************)
(* One call of solve that keeps running: solve is sequential code, so      *)
(* while a step is possible one is taken.  The inputs are every enumerated *)
(* board with a dictionary that also has words longer than a 2 x 2 board,  *)
(* and the board of test_no_revisit with its own; max_results is 0.        *)
(***************************************************************************)
\* the word list and two words of four and five letters
SearchWords ==
    WordList \cup {<<"A", "B", "A", "B">>, <<"A", "B", "A", "B", "A">>}

SearchInputs ==
    {[board |-> b, words |-> SearchWords] : b \in EnumeratedBoards}
        \cup {[board |-> NoRevisitBoard, words |-> NoRevisitWords]}

SearchInit ==
    /\ \E inp \in SearchInputs :
          /\ board = inp.board
          /\ trie = MakeTrie(inp.words)
    /\ grid_size = Len(board)
    /\ max_results = 0
    /\ found = {}
    /\ word_starts = <<>>
    /\ path = <<>>
    /\ stack = <<>>
    /\ start = 0
    /\ pc = "search"
    /\ ret = <<>>
    /\ RecIdle
    /\ LoadIdle
    /\ suspended = <<>>
    /\ LibIdle

SpecSearch == SearchInit /\ [][Next]_vars /\ WF_vars(Next)

(***************************************************************************)
(* What a word search has to find, stated without the search: the simple   *)
(* paths of the 8-neighbour grid and the strings they spell.               *)
(***************************************************************************)
Cells == 0..(total_cells - 1)

RowOf(idx) == idx \div grid_size
ColOf(idx) == idx % grid_size
PosOf(idx) == <<RowOf(idx), ColOf(idx)>>

\* the value of a cell as the board holds it
CellValue(idx) == board[RowOf(idx) + 1][ColOf(idx) + 1]

\* on an n x n grid, two different cells that touch by a side or a corner
AdjacentOn(n, i, j) ==
    /\ i # j
    /\ Abs((i \div n) - (j \div n)) <= 1
    /\ Abs((i % n) - (j % n)) <= 1

Adjacent(i, j) == AdjacentOn(grid_size, i, j)

\* the simple paths that extend path p by one adjacent, unused cell
ExtensionsOn(n, p) ==
    {Append(p, j) : j \in {x \in 0..(n * n - 1) :
                              /\ AdjacentOn(n, p[Len(p)], x)
                              /\ \A m \in 1..Len(p) : p[m] # x}}

RECURSIVE PathsOn(_, _)
\* the sequences of at most k pairwise distinct, consecutively adjacent
\* cells of an n x n grid
PathsOn(n, k) ==
    IF k = 0 THEN {}
    ELSE IF k = 1 THEN {<<i>> : i \in 0..(n * n - 1)}
    ELSE LET shorter == PathsOn(n, k - 1)
         IN  shorter \cup
                UNION {ExtensionsOn(n, p) :
                          p \in {q \in shorter : Len(q) = k - 1}}

\* no dictionary word is longer than this, so no longer path spells one
LongestWord ==
    LET lens == {Len(w) : w \in UNION {inp.words : inp \in SolveInputs}}
    IN  CHOOSE n \in lens : \A m \in lens : m <= n

\* the simple paths of each grid size that are short enough to spell a word
SimplePaths ==
    [n \in {Len(inp.board) : inp \in SolveInputs} |-> PathsOn(n, LongestWord)]

\* the simple paths of the board that avoid unresolved cells
ValidPaths ==
    {p \in SimplePaths[grid_size] :
        \A m \in 1..Len(p) : CellValue(p[m]) # <<"?">>}

\* the string spelled by the cell values along a path
Spell(p) == Join([m \in 1..Len(p) |-> CellValue(p[m])])

\* the dictionary words some valid path spells
SpellableWords ==
    LET spelled == {Spell(p) : p \in ValidPaths}
    IN  {w \in trie.is_word : w \in spelled}

\* the list of words that solve returned, and its members
RetWords == ret[1]
RetSet == {RetWords[i] : i \in 1..Len(RetWords)}
RetStarts == ret[2]

\* a is before b in lexicographic order, or equal to it
LexLeq(a, b) ==
    \/ /\ Len(a) <= Len(b)
       /\ \A m \in 1..Len(a) : a[m] = b[m]
    \/ \E k \in 1..Len(a) :
          /\ k <= Len(b)
          /\ \A m \in 1..(k - 1) : a[m] = b[m]
          /\ Ord(a[k]) < Ord(b[k])

\* a ranks before b in the result order: longer first, then lexicographic
RanksBefore(a, b) == Len(a) > Len(b) \/ (Len(a) = Len(b) /\ LexLeq(a, b))

(***************************************************************************)
(* Properties of solve.                                                    *)
(***************************************************************************)

\* C1: completeness. When max_results <= 0 the returned list holds every
\* word of the trie that is spelled by the cell values along a path of
\* pairwise distinct, consecutively adjacent cells none of which is "?".
SolveComplete ==
    (pc = "done" /\ max_results <= 0) => SpellableWords \subseteq RetSet

\* the unlimited search of the board C A T S / R E P O / B O N E / D I G S
\* has returned CAT, CATS and BONE
SolveCompleteWitness ==
    /\ pc = "done"
    /\ max_results <= 0
    /\ board = BasicBoard
    /\ {CAT, CATS, BONE} \subseteq RetSet

\* C2: soundness. Every word solve collects or returns is a terminal word of
\* the trie.
SolveSound ==
    /\ found \subseteq trie.is_word
    /\ pc = "done" => RetSet \subseteq trie.is_word

\* a finished search of the QU I T board that returned words although the
\* dictionary also has words the board cannot spell
SolveSoundWitness ==
    /\ pc = "done"
    /\ board = QuitBoard
    /\ RetSet # {}
    /\ trie.is_word \ found # {}

\* C3: no path revisits a cell. The cells of the active calls of dfs are
\* pairwise distinct, so every returned word is spelled by a simple path: on
\* the board A B / C D with ABA and AB in the dictionary, AB is returned and
\* ABA is not.
NoRevisit ==
    /\ \A i, j \in 1..Len(stack) : i # j => stack[i].idx # stack[j].idx
    /\ pc = "done" => RetSet \subseteq SpellableWords
    /\ (pc = "done" /\ board = NoRevisitBoard) => ABA \notin RetSet

\* the search of A B / C D with ABA and AB in the dictionary has finished
\* and returned AB
NoRevisitWitness ==
    /\ pc = "done"
    /\ board = NoRevisitBoard
    /\ {AB, ABA} \subseteq trie.is_word
    /\ AB \in RetSet
    /\ ABA \notin found

\* C4: a "QU" cell is consumed whole. A call of dfs that got past its cell
\* has advanced the trie node by all characters of the cell, the path holds
\* the whole values of the cells of the active calls, the word QA is never
\* found (no board cell is a bare Q), and on the board QU I T / E S A /
\* N D R with QUIT in the dictionary QUIT is found, and returned when the
\* result is not truncated.
CompoundAtomic ==
    /\ \A i \in 1..Len(stack) :
          stack[i].phase = "expand" =>
             /\ stack[i].current = stack[i].node \o cell_chars[stack[i].idx]
             /\ i <= Len(path)
             /\ path[i] = cell_chars[stack[i].idx]
    /\ QA \notin found
    /\ (pc = "done" /\ board = QuitBoard /\ QUIT \in trie.is_word)
          => /\ QUIT \in found
             /\ max_results <= 0 => QUIT \in RetSet

\* the unlimited search of the QU I T board with QUIT in the dictionary has
\* finished and returned QUIT
CompoundAtomicWitness ==
    /\ pc = "done"
    /\ board = QuitBoard
    /\ QUIT \in trie.is_word
    /\ max_results <= 0
    /\ QUIT \in RetSet

\* C5: unresolved cells are excluded. No call of dfs gets past a "?" cell,
\* the path never holds "?", and no found or returned word contains the
\* character "?".
UnresolvedExcluded ==
    /\ \A i \in 1..Len(stack) :
          stack[i].phase = "expand" => CellValue(stack[i].idx) # <<"?">>
    /\ \A i \in 1..Len(path) : path[i] # <<"?">>
    /\ \A w \in found : \A m \in 1..Len(w) : w[m] # "?"
    /\ pc = "done" => \A w \in RetSet : \A m \in 1..Len(w) : w[m] # "?"

\* a finished search of a board with an A cell next to a "?" cell, with the
\* word "A?" in the dictionary, that returned another word
UnresolvedExcludedWitness ==
    /\ pc = "done"
    /\ AUnres \in trie.is_word
    /\ \E i, j \in Cells :
          /\ Adjacent(i, j)
          /\ CellValue(i) = <<"A">>
          /\ CellValue(j) = <<"?">>
    /\ RetSet # {}

\* C6: the returned list has no duplicate and is ordered by descending
\* length, words of equal length in ascending lexicographic order.
ResultOrdered ==
    pc = "done" =>
       \A i, j \in 1..Len(RetWords) :
          i < j => /\ RetWords[i] # RetWords[j]
                   /\ RanksBefore(RetWords[i], RetWords[j])

\* the full result of the QU I T board: longer words first, words of equal
\* length in alphabetical order
ResultOrderedWitness ==
    /\ pc = "done"
    /\ RetWords = <<QUEST, QUITS, QUIT, STAR, DEN, SAT>>

\* C7: truncation. With max_results = k > 0 the list has min(k, number of
\* found words) entries and they are the first of the sorted list: every
\* found word left out ranks after every returned one. With max_results <= 0
\* every found word is returned.
ResultTruncated ==
    pc = "done" =>
       /\ RetSet \subseteq found
       /\ Len(RetWords) =
             IF max_results > 0 /\ max_results < Cardinality(found)
             THEN max_results ELSE Cardinality(found)
       /\ \A v \in RetSet : \A w \in found \ RetSet : RanksBefore(v, w)

\* a search that found more words than max_results > 0 and returned only
\* the first max_results of them
ResultTruncatedWitness ==
    /\ pc = "done"
    /\ max_results > 0
    /\ Cardinality(found) > max_results
    /\ Len(RetWords) = max_results

\* C8: canonical start. The position reported for a found word is the
\* smallest (row, col) among the start cells of the valid paths that spell
\* it.
CanonicalStart ==
    pc = "done" =>
       LET paths == ValidPaths
       IN  \A w \in found :
          /\ w \in DOMAIN RetStarts
          /\ \E p \in paths : Spell(p) = w /\ PosOf(p[1]) = RetStarts[w]
          /\ \A p \in paths :
                Spell(p) = w =>
                   \/ PosOf(p[1]) = RetStarts[w]
                   \/ RetStarts[w][1] < RowOf(p[1])
                   \/ /\ RetStarts[w][1] = RowOf(p[1])
                      /\ RetStarts[w][2] < ColOf(p[1])

\* a found word that paths from two different start cells spell
CanonicalStartWitness ==
    /\ pc = "done"
    /\ found # {}
    /\ \E w \in found : \E p, q \in ValidPaths :
          /\ Spell(p) = w
          /\ Spell(q) = w
          /\ p[1] # q[1]

\* C9: the value solve returns is the list of found words itself; for a
\* board that spells no dictionary word it is the empty list.
ReturnsWordList ==
    (pc = "done" /\ found = {}) => ret = <<>>


(***************************************************************************)
(* Properties of recognize_cells.                                          *)
(***************************************************************************)

\* C10: an error raised by the OCR call does not leave recognize_cells: the
\* recognizer goes on to the template pass and returns a full N x N grid in
\* which every cell is resolved.
OcrFailureTolerated ==
    ocr_failed =>
       /\ rec_pc # "raised"
       /\ rec_pc = "returned" =>
             /\ Len(rec_ret[1]) = rec_n
             /\ \A r \in 1..rec_n :
                   /\ Len(rec_ret[1][r]) = rec_n
                   /\ \A c \in 1..rec_n : rec_ret[1][r][c] # Unknown

(***************************************************************************)
(* Properties of _clean_ocr_text.                                          *)
(***************************************************************************)

\* the values _clean_ocr_text may return: "", one capital letter, or "QU"
CleanValues ==
    {<<>>, <<"Q", "U">>}
        \cup {<<ch>> : ch \in {"A", "B", "C", "D", "E", "F", "G", "H", "I",
                               "J", "K", "L", "M", "N", "O", "P", "R", "S",
                               "T", "U", "V", "W", "X", "Y", "Z"}}

\* C11: text cleaning is total and idempotent. Cleaning a text returns a
\* value, which is "", a letter or "QU"; cleaning that value returns a
\* value again, and it is the cleaned value itself: "" gives "", "Q" gives
\* "QU" and "QU" gives "QU".
CleanIdempotent ==
    /\ clean_pc \in {"cleaned", "recleaned"} => cleaned \in CleanValues
    /\ clean_pc = "recleaned" => recleaned \in CleanValues
    /\ clean_pc = "recleaned" => recleaned = cleaned
    /\ (clean_pc = "recleaned" /\ raw_text = <<>>) => recleaned = <<>>
    /\ (clean_pc = "recleaned" /\ raw_text = <<"Q">>)
          => cleaned = <<"Q", "U">> /\ recleaned = <<"Q", "U">>

\* the text "q" was cleaned to "QU" and "QU" was cleaned to "QU"
CleanIdempotentWitness ==
    /\ clean_pc = "recleaned"
    /\ raw_text = <<"q">>
    /\ cleaned = <<"Q", "U">>
    /\ recleaned = <<"Q", "U">>

\* the capital letter a character of a text stands for, "" when it stands
\* for none
StandsFor(ch) ==
    CASE ch \in {"A", "a"} -> "A"
      [] ch \in {"Q", "q"} -> "Q"
      [] ch = "U" -> "U"
      [] ch = "0" -> "O"
      [] ch \in {"1", "|", "!"} -> "I"
      [] ch = "5" -> "S"
      [] ch \in {"(", "{"} -> "C"
      [] OTHER -> ""

\* C12: the cleaned value is the letter of the first character of the text
\* that is a letter or a confusable character ('0' O, '1' I, '5' S, '|' I,
\* '!' I, '(' C, '{' C), upper-cased, with "QU" for a Q; it is "" exactly
\* when the text has no such character.
CleanResult ==
    clean_pc # "call" =>
       LET idx == {i \in 1..Len(raw_text) : StandsFor(raw_text[i]) # ""}
       IN  /\ (cleaned = <<>>) <=> (idx = {})
           /\ idx # {} =>
                 LET k == CHOOSE i \in idx : \A j \in idx : i <= j
                     l == StandsFor(raw_text[k])
                 IN  cleaned = IF l = "Q" THEN <<"Q", "U">> ELSE <<l>>

\* "123" was cleaned to "I"
CleanResultWitness ==
    /\ clean_pc = "cleaned"
    /\ raw_text = <<"1", "2", "3">>
    /\ cleaned = <<"I">>

\* the letter tokens: a capital letter, "QU", or "?"
LetterTokens ==
    {<<"?">>, <<"Q", "U">>}
        \cup {<<ch>> : ch \in {"A", "B", "C", "D", "E", "F", "G", "H", "I",
                               "J", "K", "L", "M", "N", "O", "P", "Q", "R",
                               "S", "T", "U", "V", "W", "X", "Y", "Z"}}

\* C13: every value of the grid recognize_cells returns is a capital
\* letter, "QU" or "?"; a bare "Q" or another token of several letters never
\* appears, whichever template set was passed.
OutputAlphabet ==
    rec_pc = "returned" =>
       \A r \in 1..Len(rec_ret[1]) : \A c \in 1..Len(rec_ret[1][r]) :
          /\ rec_ret[1][r][c] \in LetterTokens
          /\ rec_ret[1][r][c] # <<"Q">>

\* C14: every confidence of the grid recognize_cells returns lies in [0, 1]
\* (0 .. 100 hundredths), whichever pass produced it.
ConfidenceInRange ==
    rec_pc = "returned" =>
       \A r \in 1..Len(rec_ret[2]) : \A c \in 1..Len(rec_ret[2][r]) :
          0 <= rec_ret[2][r][c] /\ rec_ret[2][r][c] <= 100

(***************************************************************************)
(* Properties of _order_corners.                                           *)
(***************************************************************************)

\* C15: whatever the order of the four points, the first point returned has
\* the least x + y of the four and the third has the greatest.
OrderedBySum ==
    order_pc = "returned" =>
       /\ \E i \in 1..4 : rect[1] = pts[i]
       /\ \E i \in 1..4 : rect[3] = pts[i]
       /\ \A i \in 1..4 :
             /\ rect[1][1] + rect[1][2] <= pts[i][1] + pts[i][2]
             /\ rect[3][1] + rect[3][2] >= pts[i][1] + pts[i][2]

\* the square of test_order_corners, given as top-right, top-left,
\* bottom-left, bottom-right: (0, 0) is returned first and (2, 2) third
OrderedBySumWitness ==
    /\ order_pc = "returned"
    /\ pts = << <<2, 0>>, <<0, 0>>, <<0, 2>>, <<2, 2>> >>
    /\ rect[1] = <<0, 0>>
    /\ rect[3] = <<2, 2>>

Chain == <<"contour", "cell_grouping", "hough", "center_crop_fallback">>

\* what strategy k of the chain finds on the image
FoundBy(k) ==
    CASE k = 1 -> image.contour
      [] k = 2 -> image.cells
      [] k = 3 -> image.hough
      [] k = 4 -> << <<image.w \div 10, image.h \div 5>>,
                     <<image.w - image.w \div 10, image.h \div 5>>,
                     <<image.w - image.w \div 10, image.h - image.h \div 5>>,
                     <<image.w \div 10, image.h - image.h \div 5>> >>

\* C17: the strategies are evaluated in the order contour, cell grouping,
\* Hough lines, centre crop, up to the first that finds a quadrilateral; the
\* corners used are those of that strategy and the method tag names it; the
\* call always goes on to return, with four corners and a tag; the tag is
\* "center_crop_fallback" only when the three other strategies found
\* nothing.
FallbackChain ==
    /\ det_pc # "idle" =>
          /\ Len(tried) <= 4
          /\ \A k \in 1..Len(tried) :
                /\ tried[k] = Chain[k]
                /\ \A j \in 1..(k - 1) : FoundBy(j) = <<>>
    /\ det_pc \notin {"idle", "returned"} => ENABLED NextDetect
    /\ det_pc = "returned" =>
          LET first == CHOOSE k \in 1..4 :
                          /\ FoundBy(k) # <<>>
                          /\ \A j \in 1..(k - 1) : FoundBy(j) = <<>>
          IN  /\ Len(tried) = first
              /\ method = Chain[first]
              /\ corners = FoundBy(first)
              /\ Len(corners) = 4
              /\ method = "center_crop_fallback" =>
                    /\ image.contour = <<>>
                    /\ image.cells = <<>>
                    /\ image.hough = <<>>

\* an image on which the contour search finds nothing and both the cell
\* grouping and the Hough lines find a quadrilateral: the one of the cell
\* grouping is used
FallbackChainWitness ==
    /\ det_pc = "returned"
    /\ image.contour = <<>>
    /\ image.cells = QuadSmall
    /\ image.hough = QuadLarge
    /\ corners = QuadSmall
    /\ method = "cell_grouping"
    /\ tried = <<"contour", "cell_grouping">>

(***************************************************************************)
(* Properties of concurrent calls of solve.                                *)
(***************************************************************************)

\* the least (row, col) among the start cells of the valid paths that spell w
LeastStart(w) ==
    LET ps == {PosOf(p[1]) : p \in {q \in ValidPaths : Spell(q) = w}}
    IN  CHOOSE x \in ps :
           \A y \in ps : x = y \/ x[1] < y[1] \/ (x[1] = y[1] /\ x[2] < y[2])

\* what the executing call returns when it runs alone: the spellable words
\* of its board in result order, cut to max_results, and their least starts
AloneResult ==
    <<Truncate(Sorted(SpellableWords), max_results),
      [w \in SpellableWords |-> LeastStart(w)]>>

\* C18: no step of solve changes the trie (its nodes, their children or
\* their word flags), and a call that shares the trie with another call,
\* in whatever way their steps interleave, returns the words and positions
\* it returns when it runs alone.
SharedTrieReadOnly ==
    /\ [][trie' = trie]_vars
    /\ [](pc = "done" => ret = AloneResult)

\* one call has returned words while the other call, which already found a
\* word, is suspended in the middle of its search
SharedTrieReadOnlyWitness ==
    /\ suspended # <<>>
    /\ pc = "done"
    /\ ret[1] # <<>>
    /\ suspended[1].pc = "search"
    /\ suspended[1].stack # <<>>
    /\ suspended[1].found # {}

(***************************************************************************)
(* Properties of load_trie.                                                *)
(***************************************************************************)

\* the line without the blanks, tabs and newlines at its two ends, in
\* capital letters
TrimmedUpper(line) ==
    LET inner == {i \in 1..Len(line) : line[i] \notin {" ", "\t", "\n"}}
    IN  IF inner = {} THEN <<>>
        ELSE LET lo == CHOOSE i \in inner : \A j \in inner : i <= j
                 hi == CHOOSE i \in inner : \A j \in inner : i >= j
             IN  [i \in 1..(hi - lo + 1) |->
                    CASE line[lo + i - 1] = "a" -> "A"
                      [] line[lo + i - 1] = "b" -> "B"
                      [] line[lo + i - 1] = "q" -> "Q"
                      [] line[lo + i - 1] = "u" -> "U"
                      [] OTHER -> line[lo + i - 1]]

\* the words a word list contributes for a minimum length m
ListedWords(file, m) ==
    {w \in {TrimmedUpper(file[i]) : i \in 1..Len(file)} :
        /\ Len(w) >= m
        /\ w # <<>>
        /\ \A i \in 1..Len(w) : w[i] \in {"A", "B", "Q", "U"}}

\* C19: once load_trie(path, m) has built the trie, a word is in the trie
\* exactly when it is the trimmed, upper-cased form of a line of the word
\* list that is purely alphabetic and has at least m letters; the words
\* solve finds and returns with that trie have at least m letters.
DictionaryFiltered ==
    pc # "load" =>
       /\ trie.is_word = ListedWords(lines, min_length)
       /\ \A w \in found : Len(w) >= min_length
       /\ pc = "done" => \A w \in RetSet : Len(w) >= min_length

\* a word list with the lines "ab" and " Aba " loaded with min_length 3:
\* the board A B / QU A spells AB and ABA, and solve returned ABA alone
DictionaryFilteredWitness ==
    /\ pc = "done"
    /\ min_length = 3
    /\ lines = << <<"a", "b", "\n">>, <<" ", "A", "b", "a", " ", "\n">> >>
    /\ board = BoardAB
    /\ RetWords = <<ABA>>

(***************************************************************************)
(* Properties of infer_grid_size.                                          *)
(***************************************************************************)

\* C20: the n returned for a cell count c is 4, 5 or 6, and n * n is
\* strictly nearer to c than the square of each other size: the nearest of
\* 16, 25, 36 is unique for every count (the least distance is never
\* attained twice), so the result does not depend on a tie-break or on the
\* order in which the candidates are compared.
NearestSquare ==
    infer_pc = "returned" =>
       /\ inferred \in 4..6
       /\ \A m \in (4..6) \ {inferred} :
             Abs(inferred * inferred - cell_count) < Abs(m * m - cell_count)

\* 30 cell-like contours: 5 away from 25 and 6 away from 36, so n = 5
NearestSquareWitness ==
    /\ infer_pc = "returned"
    /\ cell_count = 30
    /\ inferred = 5

(***************************************************************************)
(* Properties of the passes of recognize_cells.                            *)
(***************************************************************************)

\* the detections of the OCR pass whose row and column lie in the grid
InGridDetections ==
    {i \in 1..Len(easyocr_detections) :
        /\ 0 <= easyocr_detections[i].r /\ easyocr_detections[i].r < rec_n
        /\ 0 <= easyocr_detections[i].c /\ easyocr_detections[i].c < rec_n}

\* the template result overrides an OCR reading: the letters differ, the OCR
\* confidence is below 0.9, and the template confidence is above 0.85 or
\* above an OCR confidence that is below 0.7
Overrides(d, m) ==
    /\ m.letter # d.letter
    /\ d.conf < 90
    /\ m.conf > 85 \/ (m.conf > d.conf /\ d.conf < 70)

\* C21: after the cross-validation pass with a calibrated template set,
\* every cell the OCR pass resolved holds the verified template letter and
\* confidence when the template result overrides the OCR reading, and in
\* every other case the OCR letter with the greater of the two confidences.
CrossValidationRule ==
    (rec_pc = "sweep" /\ templates # <<>>) =>
       \A i \in InGridDetections :
          LET d == easyocr_detections[i]
              idx == d.r * rec_n + d.c
              m == template_match_verified(cells[idx + 1], tpl)
          IN  IF Overrides(d, m)
              THEN /\ letters[idx + 1] = m.letter
                   /\ confidences[idx + 1] = m.conf
              ELSE /\ letters[idx + 1] = d.letter
                   /\ confidences[idx + 1] = Max(d.conf, m.conf)

\* C22: every detection of the OCR pass is keyed by a row and a column of
\* the grid, 0 <= row, col < N, and after the detections are stored a cell
\* holds a letter exactly when a detection is keyed by that cell, which then
\* is the letter of that detection: no letter reaches a cell through an
\* index outside the grid.
BoxesStayInGrid ==
    rec_pc = "template" =>
       /\ InGridDetections = 1..Len(easyocr_detections)
       /\ \A idx \in 0..(Len(cells) - 1) :
             LET here == {i \in 1..Len(easyocr_detections) :
                            /\ easyocr_detections[i].r = idx \div rec_n
                            /\ easyocr_detections[i].c = idx % rec_n}
             IN  IF here = {} THEN letters[idx + 1] = Unknown
                 ELSE \E i \in here :
                         /\ letters[idx + 1] = easyocr_detections[i].letter
                         /\ confidences[idx + 1] = easyocr_detections[i].conf

\* the letters and confidences as the OCR pass left them
AfterOcr ==
    StoreDetections([letters |-> [i \in 1..Len(cells) |-> Unknown],
                     confidences |-> [i \in 1..Len(cells) |-> 0]],
                    easyocr_detections, rec_n)

\* the cells the OCR pass resolved
OcrResolved == {i \in 1..Len(cells) : AfterOcr.letters[i] # Unknown}

\* the returned grids as flat row-major lists
RetLetters == Join(rec_ret[1])
RetConfidences == Join(rec_ret[2])

\* C23: the template pass leaves every cell the OCR pass resolved as it is;
\* without calibrated templates the cross-validation pass changes nothing,
\* and in the returned grid every cell the OCR pass resolved has its OCR
\* confidence and its OCR letter, or for an R or P the letter the R/P sweep
\* gave it.
PassPrecedence ==
    /\ rec_pc = "merge" =>
          \A i \in OcrResolved :
             /\ letters[i] = AfterOcr.letters[i]
             /\ confidences[i] = AfterOcr.confidences[i]
    /\ (rec_pc = "sweep" /\ templates = <<>>) =>
          \A i \in OcrResolved :
             /\ letters[i] = AfterOcr.letters[i]
             /\ confidences[i] = AfterOcr.confidences[i]
    /\ (rec_pc = "returned" /\ templates = <<>>) =>
          \A i \in OcrResolved :
             /\ RetConfidences[i] = AfterOcr.confidences[i]
             /\ \/ RetLetters[i] = AfterOcr.letters[i]
                \/ /\ AfterOcr.letters[i] \in {LetterR, LetterP}
                   /\ RetLetters[i] = disambiguate_rp(cells[i])

\* returned without calibrated templates: the OCR pass resolved one cell as
\* QU with confidence 0.95, the template pass filled another, and an R of
\* the OCR pass was turned into P by the sweep
PassPrecedenceWitness ==
    /\ rec_pc = "returned"
    /\ templates = <<>>
    /\ \E i \in OcrResolved :
          /\ AfterOcr.letters[i] = LetterQU
          /\ RetLetters[i] = LetterQU
          /\ RetConfidences[i] = 95
          /\ template_match_verified(cells[i], tpl).letter # LetterQU
    /\ \E i \in OcrResolved :
          AfterOcr.letters[i] = LetterR /\ RetLetters[i] = LetterP
    /\ \E i \in 1..Len(cells) :
          i \notin OcrResolved /\ RetLetters[i] # Unknown

\* C24: in the returned grid every cell that reads R or P reads what the
\* structural R/P check gives for that cell, whichever pass set the letter.
SweepAuthoritative ==
    rec_pc = "returned" =>
       \A i \in 1..Len(cells) :
          RetLetters[i] \in {LetterR, LetterP} =>
             RetLetters[i] = disambiguate_rp(cells[i])

\* returned with calibrated templates: a cell the OCR pass read as R is
\* returned as P, a cell the template pass filled is returned as R though
\* the P template scored higher, and a cell the cross-validation pass
\* overrode is returned as R
SweepAuthoritativeWitness ==
    /\ rec_pc = "returned"
    /\ templates # <<>>
    /\ \E i \in OcrResolved :
          /\ AfterOcr.letters[i] = LetterR
          /\ RetLetters[i] = LetterP
    /\ \E i \in 1..Len(cells) :
          /\ i \notin OcrResolved
          /\ cells[i] = ImgR
          /\ RetLetters[i] = LetterR
    /\ \E i \in OcrResolved :
          /\ AfterOcr.letters[i] = LetterQU
          /\ RetLetters[i] = LetterR

(***************************************************************************)
(* Properties of _template_match_verified.                                 *)
(***************************************************************************)

\* the letters that have a template
TemplateLetters == {match_templates[i] : i \in 1..Len(match_templates)}

\* the letters whose expected hole count is within 1 of the cell's
CompatibleLetters ==
    {l \in TemplateLetters :
        Abs(cell_processed.holes - TemplateHoles(l)) <= 1}

\* the highest-scoring letters of a set
TopScoring(S) ==
    {l \in S : \A k \in S : cell_processed.score[l] >= cell_processed.score[k]}

\* the result for a chosen letter: an R or P that the R/P check contradicts
\* becomes the other letter, with that letter's own score if it has a
\* template
Checked(chosen) ==
    LET correct == disambiguate_rp(cell_processed)
    IN  IF chosen \in {LetterR, LetterP} /\ correct # chosen
        THEN [letter |-> correct,
              conf |-> IF correct \in TemplateLetters
                       THEN cell_processed.score[correct]
                       ELSE cell_processed.score[chosen]]
        ELSE [letter |-> chosen, conf |-> cell_processed.score[chosen]]

\* C25: with at least one template, _template_match_verified returns the
\* R/P-checked result for a highest-scoring letter among those with a
\* compatible hole count, or among all letters when none is compatible.
VerifiedSelection ==
    (match_pc = "returned" /\ match_templates # <<>>) =>
       \E chosen \in TopScoring(IF CompatibleLetters # {}
                                THEN CompatibleLetters
                                ELSE TemplateLetters) :
          match_ret = Checked(chosen)

\* twice the signed area of a quadrilateral (shoelace formula)
TwiceArea(q) ==
    LET nxt(i) == IF i = 4 THEN 1 ELSE i + 1
        term(i) == q[i][1] * q[nxt(i)][2] - q[nxt(i)][1] * q[i][2]
    IN  term(1) + term(2) + term(3) + term(4)

\* C26: the quadrilateral handed to the perspective transform has four
\* different corners and an area that is not zero, whichever strategy
\* produced it.
QuadNotDegenerate ==
    det_pc \in {"warp", "returned"} =>
       /\ Len(corners) = 4
       /\ \A i, j \in 1..4 : i # j => corners[i] # corners[j]
       /\ TwiceArea(corners) # 0

(***************************************************************************)
(* Properties of split_cells.                                              *)
(***************************************************************************)

\* the side S and the grid size N of the call
S == board_shape[1]
N == split_grid_size

\* floor(k * S / N), by counting: the greatest b with b * N <= k * S
FloorOfShare(k) == Greatest({b \in 0..(k * S) : b * N <= k * S})

\* i = floor((S / N) * inset), by counting
InsetOfCell == Greatest({b \in 0..S : b * N * 1000 <= S * inset})

\* the cell of row r and column c in the returned list
CellAt(r, c) == split_ret[r * N + c + 1]

\* N * N cells in row-major order, cell (r, c) spanning the rows
\* floor(r*S/N)+i to floor((r+1)*S/N)-i and the columns likewise; the outer
\* boundaries of neighbouring cells coincide and the last one is S
RowMajorCells ==
    /\ Len(split_ret) = N * N
    /\ \A r, c \in 0..(N - 1) :
          /\ CellAt(r, c).y1 = FloorOfShare(r) + InsetOfCell
          /\ CellAt(r, c).y2 = FloorOfShare(r + 1) - InsetOfCell
          /\ CellAt(r, c).x1 = FloorOfShare(c) + InsetOfCell
          /\ CellAt(r, c).x2 = FloorOfShare(c + 1) - InsetOfCell
    /\ \A r \in 0..(N - 2), c \in 0..(N - 1) :
          CellAt(r, c).y2 + InsetOfCell = CellAt(r + 1, c).y1 - InsetOfCell
    /\ \A r \in 0..(N - 1), c \in 0..(N - 2) :
          CellAt(r, c).x2 + InsetOfCell = CellAt(r, c + 1).x1 - InsetOfCell
    /\ CellAt(N - 1, N - 1).y2 + InsetOfCell = S
    /\ CellAt(N - 1, N - 1).x2 + InsetOfCell = S

\* C27 as stated: the cells are the N * N row-major cells, for every inset
\* below 0.5 every cell has positive height and width, and a cell has zero
\* area only when the inset is 0.5 or more.
CellsPositiveBelowHalf ==
    split_pc = "returned" =>
       /\ RowMajorCells
       /\ inset < 500 =>
             \A k \in 1..Len(split_ret) :
                CellHeight(split_ret[k]) > 0 /\ CellWidth(split_ret[k]) > 0
       /\ \A k \in 1..Len(split_ret) :
             (CellHeight(split_ret[k]) = 0 \/ CellWidth(split_ret[k]) = 0)
                => inset >= 500

\* C27 amended: the cells are the N * N row-major cells; when N divides S,
\* every cell has positive height and width for every inset below 0.5 and a
\* cell has zero area only when the inset is 0.5 or more; in general a cell
\* has zero height exactly when twice the inset in pixels is no less than
\* the rows of its share of the board, and likewise for its width.
CellSegmentation ==
    split_pc = "returned" =>
       /\ RowMajorCells
       /\ (S % N = 0 /\ inset < 500) =>
             \A k \in 1..Len(split_ret) :
                CellHeight(split_ret[k]) > 0 /\ CellWidth(split_ret[k]) > 0
       /\ S % N = 0 =>
             \A k \in 1..Len(split_ret) :
                (CellHeight(split_ret[k]) = 0 \/ CellWidth(split_ret[k]) = 0)
                   => inset >= 500
       /\ \A r, c \in 0..(N - 1) :
             /\ CellHeight(CellAt(r, c)) = 0
                   <=> 2 * InsetOfCell >= FloorOfShare(r + 1) - FloorOfShare(r)
             /\ CellWidth(CellAt(r, c)) = 0
                   <=> 2 * InsetOfCell >= FloorOfShare(c + 1) - FloorOfShare(c)

\* a 400 x 400 board split into 6 x 6 cells with an inset of 0.499: the
\* inset is 33 pixels, the first cell has no rows and the cell below has one
CellSegmentationWitness ==
    /\ split_pc = "returned"
    /\ board_shape = <<400, 400>>
    /\ split_grid_size = 6
    /\ inset = 499
    /\ CellHeight(CellAt(0, 0)) = 0
    /\ CellHeight(CellAt(1, 0)) = 1
    /\ CellAt(5, 5).y2 + InsetOfCell = 400

(***************************************************************************)
(* Properties of the visited mask of solve.                                *)
(***************************************************************************)

RECURSIVE PathBits(_)
\* the mask with exactly the bits of the cells of the first k active calls
PathBits(k) == IF k = 0 THEN 0 ELSE PathBits(k - 1) + Pow2(stack[k].idx)

RECURSIVE BitCount(_)
\* the number of set bits of a mask
BitCount(m) == IF m = 0 THEN 0 ELSE (m % 2) + BitCount(m \div 2)

\* in every active call of dfs, at depth k, the cells of the calls up to it
\* are different, visited has exactly their bits and so k bits set, and k is
\* at most N * N
MaskIsPath ==
    /\ Len(stack) <= total_cells
    /\ \A k \in 1..Len(stack) :
          /\ \A j \in 1..(k - 1) : stack[j].idx # stack[k].idx
          /\ stack[k].visited = PathBits(k)
          /\ BitCount(stack[k].visited) = k

\* a call of dfs made from inside dfs is on a cell whose bit was clear in
\* the caller's mask
EntersClearOnly ==
    (Len(stack) > 0 /\ Len(stack') = Len(stack) + 1) =>
        ~BitSet(Top.visited, stack'[Len(stack')].idx)

\* C28: at every invocation of dfs the visited mask has exactly the bits of
\* the cells on the current path and as many bits as the recursion depth, a
\* neighbour is entered only if its bit is clear, the depth never exceeds
\* N * N, and solve terminates.
VisitedMask ==
    /\ []MaskIsPath
    /\ [][EntersClearOnly]_vars
    /\ <>(pc = "done")

\* the search of the board A B / A B is four calls deep on the cells 0, 1,
\* 2, 3 with every bit set, and the trie has a longer word than ABAB
VisitedMaskWitness ==
    /\ board = << <<<<"A">>, <<"B">>>>, <<<<"A">>, <<"B">>>> >>
    /\ Len(stack) = 4
    /\ [k \in 1..4 |-> stack[k].idx] = <<0, 1, 2, 3>>
    /\ Top.visited = 15
    /\ Top.phase = "expand"
    /\ HasChildren(trie, Top.current)

(***************************************************************************)
(* Properties of the positions map of solve.                               *)
(***************************************************************************)

\* C29: the keys of the returned positions map are all the found words, the
\* dictionary words the board spells, whatever max_results is: every word
\* of the returned list has an entry, a word cut from the list still has
\* one, and the map is the one the board and the dictionary determine.
PositionsComplete ==
    pc = "done" =>
       /\ DOMAIN RetStarts = found
       /\ DOMAIN RetStarts = SpellableWords
       /\ RetSet \subseteq DOMAIN RetStarts
       /\ RetStarts = [w \in SpellableWords |-> LeastStart(w)]

\* returned with max_results = 1 from a board that spells two dictionary
\* words: the list has one word and the positions map has both
PositionsCompleteWitness ==
    /\ pc = "done"
    /\ max_results = 1
    /\ Len(RetWords) = 1
    /\ Cardinality(DOMAIN RetStarts) = 2
    /\ \E w \in DOMAIN RetStarts : w \notin RetSet

(***************************************************************************)
(* Properties of the corner order as a permutation.                        *)
(***************************************************************************)

\* the orderings of the four input points
Reorderings ==
    {[k \in 1..4 |-> pts[f[k]]] :
        f \in {g \in [1..4 -> 1..4] : \A i, j \in 1..4 : i # j => g[i] # g[j]}}

\* C30: the four corners _order_corners returns are its four input points,
\* each once, and they are the same for every ordering of the input points.
CornersPermuted ==
    order_pc = "returned" =>
       /\ \A i \in 1..4 : \E j \in 1..4 : rect[j] = pts[i]
       /\ \A i, j \in 1..4 : i # j => rect[i] # rect[j]
       /\ \A q \in Reorderings : order_corners(q) = rect

====
